---- MODULE Spec2Model ----
(***************************************************************************)
(* Ghostwriter: post lifecycle, publish pipeline, schedules, scheduled     *)
(* generation and trending-topic sync, modelled from the backend sources.  *)
(*                                                                         *)
(* Time is counted in minutes (the finest cadence of the scheduler).       *)
(***************************************************************************)
EXTENDS Integers, Sequences, FiniteSets, TLC

(* ------------------------------ bounds -------------------------------- *)
MaxPosts == 2
MaxCreated == 1
MaxTime == 1
MaxSchedules == 2
MaxInFlight == 2
MaxTopics == 3
MaxGenerated == 1
MaxOverlap == 2
MaxDays == 4

(* ------------------------- nullable columns --------------------------- *)
NullTime == -1
NullId == 0
NullStr == "null"
AbsentTime == -2
AbsentId == -2
Absent == "absent"

PostIds == 1..MaxPosts
AccountIds == {1, 2}
PersonaIds == {1, 2}

Statuses == {"DRAFT", "PENDING", "APPROVED", "SCHEDULED", "PUBLISHED", "REJECTED", "FAILED"}

(* A row that was never created, and a row that was deleted (ids are uuids *)
(* and are never reused).                                                  *)
NoPost == [status |-> "NONE", personaId |-> NullId, accountId |-> NullId,
           topic |-> <<NullStr>>, scheduledAt |-> NullTime, publishedAt |-> NullTime,
           threadsId |-> NullStr, error |-> NullStr]
GonePost == [NoPost EXCEPT !.status = "GONE"]

Exists(post) == post.status \in Statuses

VARIABLES
    now,        \* the clock, in minutes
    posts,      \* the Post table: id -> row
    nextPost,   \* number of Post rows created so far
    accounts,   \* the Account table: id -> credential columns
    sweep,      \* position of processScheduledPosts: pc and the rows still to process
    lastCall,   \* the post the last step called the publishing platform for, or 0
    succ,       \* bookkeeping of sweeps in immediate succession
    schedules,  \* the Schedule table: id -> row
    nextSched,  \* number of Schedule rows created so far
    pending,    \* create-schedule requests between their lookup and their insert
    schedResp,  \* the response to the last schedule request
    feed,       \* what the three upstream feeds return at the moment, concatenated
    topics,     \* the Topic table, in insertion order
    gen,        \* position of generateScheduledPosts: pc, schedules to go, posts made
    genLog,     \* what the last step of generateScheduledPosts did
    syncLog,    \* what the last trend sync saw and reported
    cleanLog,   \* what the last topic cleanup saw and deleted
    pick,       \* the last call of getBestTopicForPersona: arguments, pool and result
    resp,       \* the answer to the last schedule or publish-now request
    wire,       \* the requests the last publish call sent to the platform
    refresh     \* position of refreshAllTokens, and what its ticks saw and did

lifeVars == <<now, posts, nextPost, accounts, sweep, lastCall, succ>>
schedVars == <<schedules, nextSched, pending, schedResp>>
genVars == <<feed, topics, gen, genLog, syncLog>>
auxVars == <<cleanLog, pick, resp, wire, refresh>>
vars == <<lifeVars, schedVars, genVars, auxVars>>

(* What the posts API and the sweep leave alone, and what the schedules    *)
(* API leaves alone.                                                       *)
notLife == <<schedVars, genVars, auxVars>>
notSched == <<lifeVars, genVars, auxVars>>
notResp == <<schedVars, genVars, cleanLog, pick, wire, refresh>>
notWire == <<schedVars, genVars, cleanLog, pick, resp, refresh>>
notCalls == <<schedVars, genVars, cleanLog, pick, refresh>>
notRefresh == <<schedVars, genVars, cleanLog, pick, resp, wire>>

(* ----------------------------- accounts ------------------------------- *)
FarExpiry == 86400
(* The columns of an Account row; name is required, active defaults to     *)
(* true, the four credential columns are nullable.                         *)
Account(tok, uid, exp) ==
    [name |-> "account", accessToken |-> tok, refreshToken |-> NullStr, threadsUserId |-> uid,
     tokenExpiresAt |-> exp, active |-> TRUE]
ManualAccounts ==
    { Account("tok", "uid", FarExpiry), Account("tok", "uid", 0),
      Account(NullStr, "uid", NullTime), Account("tok", NullStr, FarExpiry) }
OAuthAccount == Account("tok", "uid", FarExpiry)
DisconnectedAccount == Account(NullStr, NullStr, NullTime)

(* !post.account?.accessToken || !post.account?.threadsUserId, on the      *)
(* account row joined to the post (acc = DisconnectedAccount when the post *)
(* has no account).                                                        *)
NoCredential(acc) == acc.accessToken = NullStr \/ acc.threadsUserId = NullStr

IncludeAccount(post) ==
    IF post.accountId = NullId THEN DisconnectedAccount ELSE accounts[post.accountId]

(* ------------------------- publishing platform ------------------------ *)
(* publishToThreads: container creation, then commit; any thrown error is  *)
(* turned into {success: false, error}.                                    *)
(* What the platform answers to a request: response.ok with the id of the  *)
(* body, or an error status whose body has error.message or not (NullStr). *)
OkResponse(id) == [ok |-> TRUE, id |-> id, message |-> NullStr]
ErrorResponse(msg) == [ok |-> FALSE, id |-> NullStr, message |-> msg]

(* The platform's answers to the two requests of one publish call.         *)
Platform(container, commit) == [container |-> container, commit |-> commit]

(* createMediaContainer and publishContainer: the id, or a thrown Error    *)
(* with error.error?.message || the default text of the step.              *)
Returned(id) == [thrown |-> FALSE, value |-> id]
Thrown(msg) == [thrown |-> TRUE, value |-> msg]

createMediaContainer(response) ==
    IF response.ok THEN Returned(response.id)
    ELSE Thrown(IF response.message = NullStr THEN "Failed to create media container"
                ELSE response.message)

publishContainer(response) ==
    IF response.ok THEN Returned(response.id)
    ELSE Thrown(IF response.message = NullStr THEN "Failed to publish post"
                ELSE response.message)

publishToThreadsCommitsAnyway(platform) ==
    LET container == createMediaContainer(platform.container)
        threads == publishContainer(platform.commit)
    IN IF threads.thrown
       THEN [success |-> FALSE, threadsId |-> NullStr, error |-> threads.value,
             requests |-> <<"container", "commit">>]
       ELSE [success |-> TRUE, threadsId |-> threads.value, error |-> NullStr,
             requests |-> <<"container", "commit">>]

(* publishToThreads: step 1, then step 2 with the container id; the first  *)
(* throw ends the try block. requests lists the requests that were sent.   *)
publishToThreads(platform) ==
    LET container == createMediaContainer(platform.container)
    IN IF container.thrown
       THEN [success |-> FALSE, threadsId |-> NullStr, error |-> container.value,
             requests |-> <<"container">>]
       ELSE LET threads == publishContainer(platform.commit)
            IN IF threads.thrown
               THEN [success |-> FALSE, threadsId |-> NullStr, error |-> threads.value,
                     requests |-> <<"container", "commit">>]
               ELSE [success |-> TRUE, threadsId |-> threads.value, error |-> NullStr,
                     requests |-> <<"container", "commit">>]

(* Three platforms: both steps answer ok, the first is refused with a      *)
(* message in the body, the second is refused with no message.             *)
PublishOutcomes ==
    { Platform(OkResponse("cid"), OkResponse("tid")),
      Platform(ErrorResponse("rate limited"), OkResponse("tid")),
      Platform(OkResponse("cid"), ErrorResponse(NullStr)) }

PublishResult(outcome) == publishToThreads(outcome)

NoWire == <<>>

(* The post row after the pipeline's terminal update.                      *)
PublishedRow(post, result, at) ==
    [post EXCEPT !.status = "PUBLISHED", !.publishedAt = at, !.threadsId = result.threadsId]

FailedRowKeepsStatus(post, msg) ==
    [post EXCEPT !.error = msg]

FailedRow(post, msg) ==
    [post EXCEPT !.status = "FAILED", !.error = msg]

(* ------------------------- succession tracking ------------------------ *)
(* Bookkeeping for "two sweeps in immediate succession": phase of the      *)
(* current run of sweeps with no other operation in between, the posts the *)
(* first sweep selected, the posts the second selected, and how often each *)
(* post was handed to the platform in the run.                             *)
NoSucc == [phase |-> "none", due |-> {}, second |-> {}, cnt |-> [p \in PostIds |-> 0]]

(* ------------------------------ posts API ----------------------------- *)
StatusInputs == Statuses
PostAccounts == {1}
AccountInputs == {NullId} \cup PostAccounts
(* The scheduledAt a request carries: minute 1, which is in the future at *)
(* minute 0 and due (or past) from minute 1 on.                           *)
TimeInputs == {1}

(* router.post('/'): PostSchema.parse, then prisma.post.create             *)
CreatePost(st, acct, sched) ==
    /\ nextPost < MaxCreated
    /\ nextPost < MaxPosts
    /\ nextPost' = nextPost + 1
    /\ posts' = [posts EXCEPT ![nextPost + 1] =
                    [NoPost EXCEPT !.status = st, !.personaId = 1, !.accountId = acct,
                                   !.scheduledAt = IF sched # NullTime THEN sched ELSE NullTime]]
    /\ lastCall' = 0
    /\ succ' = NoSucc
    /\ UNCHANGED <<now, accounts, sweep, notLife>>

(* router.put('/:id'): PostSchema.partial(); a key that is absent leaves   *)
(* the column alone, and scheduledAt is only written when truthy.          *)
UpdatePost(p, st, acct, sched) ==
    /\ Exists(posts[p])
    /\ posts' = [posts EXCEPT ![p] =
                    [@ EXCEPT !.status = IF st = Absent THEN @ ELSE st,
                              !.accountId = IF acct = AbsentId THEN @ ELSE acct,
                              !.scheduledAt = IF sched \in {AbsentTime, NullTime} THEN @ ELSE sched]]
    /\ lastCall' = 0
    /\ succ' = NoSucc
    /\ UNCHANGED <<now, nextPost, accounts, sweep, notLife>>

(* router.delete('/:id')                                                   *)
DeletePost(p) ==
    /\ Exists(posts[p])
    /\ posts' = [posts EXCEPT ![p] = GonePost]
    /\ lastCall' = 0
    /\ succ' = NoSucc
    /\ UNCHANGED <<now, nextPost, accounts, sweep, notLife>>

(* router.post('/bulk-status'): updateMany over the ids that exist         *)
BulkStatus(ids, st) ==
    /\ \E p \in ids : Exists(posts[p])
    /\ posts' = [p \in PostIds |->
                    IF p \in ids /\ Exists(posts[p]) THEN [posts[p] EXCEPT !.status = st]
                    ELSE posts[p]]
    /\ lastCall' = 0
    /\ succ' = NoSucc
    /\ UNCHANGED <<now, nextPost, accounts, sweep, notLife>>

(* router.post('/:id/approve')                                             *)
ApprovePost(p) ==
    /\ Exists(posts[p])
    /\ posts' = [posts EXCEPT ![p].status = "APPROVED"]
    /\ lastCall' = 0
    /\ succ' = NoSucc
    /\ UNCHANGED <<now, nextPost, accounts, sweep, notLife>>

(* router.post('/:id/reject')                                              *)
RejectPost(p) ==
    /\ Exists(posts[p])
    /\ posts' = [posts EXCEPT ![p].status = "REJECTED"]
    /\ lastCall' = 0
    /\ succ' = NoSucc
    /\ UNCHANGED <<now, nextPost, accounts, sweep, notLife>>

(* The answer to a request: the handler's res.json (200) or the status    *)
(* errorHandler gives the error thrown: AppError.statusCode, or 500 for an *)
(* error that is neither an AppError nor a Prisma error (a ZodError).      *)
(* The request is kept with its answer: the route, the post, and the two   *)
(* keys of the body (NullTime, NullId: the key is absent).                 *)
NoResp == [op |-> "none", post |-> NullId, scheduledAt |-> NullTime, accountId |-> NullId,
           code |-> 0]
Resp(op, p, sched, acct, code) ==
    [op |-> op, post |-> p, scheduledAt |-> sched, accountId |-> acct, code |-> code]

(* router.post('/:id/schedule'): only scheduledAt is read from the body    *)
(* (NullTime: the key is absent); accountId, if sent, is ignored.          *)
SchedulePost(p, sched, acct) ==
    /\ Exists(posts[p])
    /\ IF sched = NullTime
       THEN /\ posts' = posts
            /\ resp' = Resp("schedule", p, sched, acct, 400)
       ELSE /\ posts' = [posts EXCEPT ![p].status = "SCHEDULED", ![p].scheduledAt = sched]
            /\ resp' = Resp("schedule", p, sched, acct, 200)
    /\ lastCall' = 0
    /\ succ' = NoSucc
    /\ UNCHANGED <<now, nextPost, accounts, sweep, notResp>>

(* router.patch('/:id/schedule'): zod requires scheduledAt and accountId   *)
SchedulePatch(p, sched, acct) ==
    /\ Exists(posts[p])
    /\ IF sched = NullTime \/ acct = NullId
       THEN /\ posts' = posts
            /\ resp' = Resp("schedulePatch", p, sched, acct, 500)
       ELSE /\ posts' = [posts EXCEPT ![p].status = "SCHEDULED", ![p].scheduledAt = sched,
                                      ![p].accountId = acct]
            /\ resp' = Resp("schedulePatch", p, sched, acct, 200)
    /\ lastCall' = 0
    /\ succ' = NoSucc
    /\ UNCHANGED <<now, nextPost, accounts, sweep, notResp>>

(* router.post('/:id/publish'): 404 without the row, 400 without a usable  *)
(* credential (the row is left as it is), else publish and write the       *)
(* terminal status.                                                        *)
PublishNow(p, outcome) ==
    /\ Exists(posts[p])
    /\ IF NoCredential(IncludeAccount(posts[p]))
       THEN /\ posts' = posts
            /\ resp' = Resp("publish", p, NullTime, NullId, 400)
            /\ lastCall' = 0
            /\ wire' = NoWire
       ELSE LET result == PublishResult(outcome)
            IN /\ posts' = [posts EXCEPT ![p] =
                               IF result.success THEN PublishedRow(@, result, now)
                               ELSE FailedRow(@, result.error)]
               /\ resp' = Resp("publish", p, NullTime, NullId, IF result.success THEN 200 ELSE 500)
               /\ lastCall' = p
               /\ wire' = result.requests
    /\ succ' = NoSucc
    /\ UNCHANGED <<now, nextPost, accounts, sweep, notCalls>>

DisconnectRowKeepsRefresh(acc) ==
    [acc EXCEPT !.accessToken = NullStr, !.tokenExpiresAt = NullTime, !.threadsUserId = NullStr]

(* data: { accessToken: null, refreshToken: null, tokenExpiresAt: null,    *)
(* threadsUserId: null }                                                   *)
DisconnectRow(acc) ==
    [acc EXCEPT !.accessToken = NullStr, !.refreshToken = NullStr, !.tokenExpiresAt = NullTime,
                !.threadsUserId = NullStr]

(* router.post('/disconnect/:accountId'): prisma.account.update by id      *)
Disconnect(a) ==
    /\ accounts' = [accounts EXCEPT ![a] = DisconnectRow(@)]
    /\ lastCall' = 0
    /\ succ' = NoSucc
    /\ UNCHANGED <<now, posts, nextPost, sweep, notLife>>

(* --------------------------- token refresh ---------------------------- *)
(* cron.schedule('0 3 * * *'): refreshAllTokens runs once a day; the clock *)
(* counts minutes from a 03:00, so the task is due at the multiples of Day.*)
Day == 1440
RefreshWindowDays == 7
RefreshWindow == RefreshWindowDays * Day

(* refresh: pc and the rows still to visit; at, the time of the last tick; *)
(* before, the Account table that tick read; called, the accounts it       *)
(* called refreshAccessToken for; failed, the accounts a call has ever     *)
(* failed for; watched, the accounts that were active with a token good    *)
(* for more than a day when the table was first read.                      *)
NoRefresh == [pc |-> "idle", queue |-> <<>>, at |-> NullTime, before |-> <<>>,
              called |-> {}, failed |-> {}, watched |-> {}]

(* where: { active: true, accessToken: { not: null },                      *)
(*          tokenExpiresAt: { not: null } }                                *)
RefreshCandidates ==
    { a \in AccountIds : /\ accounts[a].active
                         /\ accounts[a].accessToken # NullStr
                         /\ accounts[a].tokenExpiresAt # NullTime }

RefreshQueues(found) ==
    { q \in [1..Cardinality(found) -> found] : \A i, j \in DOMAIN q : i # j => q[i] # q[j] }

RefreshSnapshot(q) ==
    [i \in DOMAIN q |-> [id |-> q[i], accessToken |-> accounts[q[i]].accessToken,
                         tokenExpiresAt |-> accounts[q[i]].tokenExpiresAt]]

RefreshDueWhenExpired(account, at) == account.tokenExpiresAt < at

(* account.tokenExpiresAt < sevenDaysFromNow, now being read once, before  *)
(* the loop.                                                               *)
RefreshDue(account, at) == account.tokenExpiresAt < at + RefreshWindow

(* What the platform answers to refresh_access_token: a refusal, or a new  *)
(* token with its lifetime: the 60 days of a long-lived token, or two days.*)
RefreshedToken == "fresh"
Lifetimes == {2 * Day, FarExpiry}

(* refreshAllTokens, up to the start of the loop.                          *)
RefreshStart ==
    /\ refresh.pc = "idle"
    /\ now % Day = 0
    /\ refresh.at < now
    /\ \E q \in RefreshQueues(RefreshCandidates) :
          refresh' = [refresh EXCEPT !.pc = IF q = <<>> THEN "idle" ELSE "run",
                                     !.queue = RefreshSnapshot(q),
                                     !.at = now, !.before = accounts, !.called = {}]
    /\ UNCHANGED <<lifeVars, notRefresh>>

RestOfRefresh ==
    IF Len(refresh.queue) = 1 THEN [refresh EXCEPT !.pc = "idle", !.queue = <<>>]
    ELSE [refresh EXCEPT !.queue = Tail(@)]

(* One iteration of the loop: an account that is not due is passed over;   *)
(* for a due one refreshAccessToken is called with the token read at the   *)
(* start, and the new token and Date.now() + expiresIn are written by id;  *)
(* a failed call is caught and logged.                                     *)
RefreshStep(ok, expiresIn) ==
    /\ refresh.pc = "run"
    /\ LET account == Head(refresh.queue)
       IN IF ~RefreshDue(account, refresh.at)
          THEN /\ refresh' = RestOfRefresh
               /\ UNCHANGED accounts
          ELSE IF ok
          THEN /\ accounts' = [accounts EXCEPT ![account.id].accessToken = RefreshedToken,
                                               ![account.id].tokenExpiresAt = now + expiresIn]
               /\ refresh' = [RestOfRefresh EXCEPT !.called = @ \cup {account.id}]
          ELSE /\ refresh' = [RestOfRefresh EXCEPT !.called = @ \cup {account.id},
                                                   !.failed = @ \cup {account.id}]
               /\ UNCHANGED accounts
    /\ UNCHANGED <<now, posts, nextPost, sweep, lastCall, succ, notRefresh>>

(* A day passes, from one 03:00 to the next; the task of the day has run.  *)
DayPasses ==
    /\ refresh.pc = "idle"
    /\ refresh.at = now
    /\ now < MaxDays * Day
    /\ now' = now + Day
    /\ UNCHANGED <<posts, nextPost, accounts, sweep, lastCall, succ, notLife>>

(* ------------------------- sweep-and-publish -------------------------- *)
(* cron.schedule('* * * * *') calls processScheduledPosts every minute,    *)
(* whether or not the call of the minute before has returned: the calls    *)
(* in flight are the slots of sweep.                                       *)
SweepSlots == 1..MaxOverlap

IdleSweep == [pc |-> "idle", queue |-> <<>>, at |-> NullTime]
NoSweeps == [k \in SweepSlots |-> IdleSweep]

(* where: { status: 'SCHEDULED', scheduledAt: { lte: now } }               *)
DuePosts ==
    { p \in PostIds : /\ posts[p].status = "SCHEDULED"
                      /\ posts[p].scheduledAt # NullTime
                      /\ posts[p].scheduledAt <= now }

(* The rows findMany returns, each joined with its account as read now;    *)
(* no orderBy is given, so any order of the rows is possible.              *)
SweepQueues(due) ==
    { q \in [1..Cardinality(due) -> due] : \A i, j \in DOMAIN q : i # j => q[i] # q[j] }

Snapshot(q) == [i \in DOMAIN q |-> [id |-> q[i], account |-> IncludeAccount(posts[q[i]])]]

StartSucc(due) ==
    IF succ.phase = "between"
    THEN [succ EXCEPT !.phase = IF due = {} THEN "done" ELSE "second", !.second = due]
    ELSE [NoSucc EXCEPT !.phase = IF due = {} THEN "between" ELSE "first", !.due = due]

(* processScheduledPosts, up to the start of the loop; cron starts one     *)
(* call a minute.                                                          *)
SweepStart(k) ==
    /\ sweep[k].pc = "idle"
    /\ \A j \in SweepSlots : sweep[j].pc = "run" => sweep[j].at < now
    /\ \E q \in SweepQueues(DuePosts) :
          sweep' = [sweep EXCEPT ![k] =
                       IF q = <<>> THEN IdleSweep
                       ELSE [pc |-> "run", queue |-> Snapshot(q), at |-> now]]
    /\ succ' = StartSucc(DuePosts)
    /\ lastCall' = 0
    /\ UNCHANGED <<now, posts, nextPost, accounts, notLife>>

(* What is left of the sweep after the head of the queue was processed.    *)
RestOfSweep(k) ==
    IF Len(sweep[k].queue) = 1 THEN IdleSweep ELSE [sweep[k] EXCEPT !.queue = Tail(@)]

StepSucc(k, id, called) ==
    IF succ.phase \notin {"first", "second"} THEN succ
    ELSE [succ EXCEPT !.cnt[id] = IF called THEN @ + 1 ELSE @,
                      !.phase = IF Len(sweep[k].queue) > 1 THEN @
                                ELSE IF @ = "first" THEN "between" ELSE "done"]

SweepSkipsTokenOnly(item) == item.account.accessToken = NullStr

(* The credential test of the loop body on the joined account.             *)
SweepSkips(item) == NoCredential(item.account)

(* One iteration of the loop with no usable credential: the row is marked  *)
(* FAILED and the loop continues.                                          *)
SweepNoCredential(k) ==
    /\ sweep[k].pc = "run"
    /\ LET item == Head(sweep[k].queue)
       IN /\ SweepSkips(item)
          /\ Exists(posts[item.id])
          /\ posts' = [posts EXCEPT ![item.id] =
                          FailedRow(@, "No valid Threads account configured")]
          /\ succ' = StepSucc(k, item.id, FALSE)
    /\ sweep' = [sweep EXCEPT ![k] = RestOfSweep(k)]
    /\ lastCall' = 0
    /\ UNCHANGED <<now, nextPost, accounts, notLife>>

(* One iteration of the loop with a credential: publish with the token     *)
(* read at the start of the sweep, then write the terminal status; the     *)
(* update is by id alone, whatever the status of the row is by then.       *)
SweepPublish(k, outcome) ==
    /\ sweep[k].pc = "run"
    /\ LET item == Head(sweep[k].queue)
           result == PublishResult(outcome)
       IN /\ ~SweepSkips(item)
          /\ Exists(posts[item.id])
          /\ posts' = [posts EXCEPT ![item.id] =
                          IF result.success THEN PublishedRow(@, result, now)
                          ELSE FailedRow(@, result.error)]
          /\ succ' = StepSucc(k, item.id, TRUE)
          /\ lastCall' = item.id
          /\ wire' = result.requests
    /\ sweep' = [sweep EXCEPT ![k] = RestOfSweep(k)]
    /\ UNCHANGED <<now, nextPost, accounts, notWire>>

(* The row was deleted after the sweep read it: prisma.post.update throws  *)
(* (outside the try, or again inside the catch) and the sweep ends there.  *)
SweepAbort(k) ==
    /\ sweep[k].pc = "run"
    /\ LET item == Head(sweep[k].queue)
       IN /\ ~Exists(posts[item.id])
          /\ lastCall' = IF SweepSkips(item) THEN 0 ELSE item.id
    /\ sweep' = [sweep EXCEPT ![k] = IdleSweep]
    /\ succ' = NoSucc
    /\ UNCHANGED <<now, posts, nextPost, accounts, notLife>>

(* A minute passes.                                                        *)
Tick ==
    /\ now < MaxTime
    /\ now' = now + 1
    /\ UNCHANGED <<posts, nextPost, accounts, sweep, lastCall, succ, notLife>>

(* ------------------------------- strings ------------------------------ *)
(* A string is the tuple of its characters; a null string column is        *)
(* NullTitle.                                                              *)
NullTitle == <<NullStr>>

LowerChar(c) ==
    CASE c = "A" -> "a"
      [] c = "B" -> "b"
      [] c = "C" -> "c"
      [] c = "D" -> "d"
      [] c = "E" -> "e"
      [] c = "F" -> "f"
      [] c = "G" -> "g"
      [] c = "H" -> "h"
      [] c = "I" -> "i"
      [] c = "J" -> "j"
      [] c = "K" -> "k"
      [] c = "L" -> "l"
      [] c = "M" -> "m"
      [] c = "N" -> "n"
      [] c = "O" -> "o"
      [] c = "P" -> "p"
      [] c = "Q" -> "q"
      [] c = "R" -> "r"
      [] c = "S" -> "s"
      [] c = "T" -> "t"
      [] c = "U" -> "u"
      [] c = "V" -> "v"
      [] c = "W" -> "w"
      [] c = "X" -> "x"
      [] c = "Y" -> "y"
      [] c = "Z" -> "z"
      [] OTHER -> c

(* String.prototype.toLowerCase, includes and slice(0, n)                  *)
ToLower(s) == [i \in 1..Len(s) |-> LowerChar(s[i])]
Includes(s, sub) ==
    \E i \in 0..(Len(s) - Len(sub)) : SubSeq(s, i + 1, i + Len(sub)) = sub
SliceTo(s, n) == IF Len(s) <= n THEN s ELSE SubSeq(s, 1, n)

(* ------------------------------- trends ------------------------------- *)
(* A TrendingTopic: title and score; NoScore stands for a missing score,   *)
(* which "topic.score || 50" treats as it treats 0.                        *)
NoScore == 0
BaseScore == 50
DedupWidth == 50
TopN == 5
Trend(title, score) == [title |-> title, score |-> score]

(* fetchAllTrends: the three feeds concatenated, then the first of every   *)
(* group of titles equal in lower case over their first 50 characters.     *)
Normalized(title) == SliceTo(ToLower(title), DedupWidth)
FetchAllTrends(all) ==
    LET keep == { i \in 1..Len(all) :
                    \A j \in 1..(i - 1) : Normalized(all[j].title) # Normalized(all[i].title) }
        RECURSIVE Unique(_)
        Unique(i) == IF i > Len(all) THEN <<>>
                     ELSE (IF i \in keep THEN <<all[i]>> ELSE <<>>) \o Unique(i + 1)
    IN Unique(1)

techKeywords ==
    { <<"a", "i">>, <<"t", "e", "c", "h">>,
      <<"s", "o", "f", "t", "w", "a", "r", "e">>,
      <<"c", "o", "m", "p", "u", "t", "e", "r">>,
      <<"d", "i", "g", "i", "t", "a", "l">>,
      <<"i", "n", "t", "e", "r", "n", "e", "t">>, <<"a", "p", "p">> }
scienceKeywords ==
    { <<"s", "c", "i", "e", "n", "c", "e">>,
      <<"r", "e", "s", "e", "a", "r", "c", "h">>,
      <<"s", "t", "u", "d", "y">>,
      <<"d", "i", "s", "c", "o", "v", "e", "r", "y">>,
      <<"s", "p", "a", "c", "e">>, <<"p", "h", "y", "s", "i", "c", "s">> }
businessKeywords ==
    { <<"b", "u", "s", "i", "n", "e", "s", "s">>,
      <<"e", "c", "o", "n", "o", "m", "y">>,
      <<"m", "a", "r", "k", "e", "t">>,
      <<"c", "o", "m", "p", "a", "n", "y">>,
      <<"s", "t", "a", "r", "t", "u", "p">>, <<"m", "o", "n", "e", "y">> }
philosophyKeywords ==
    { <<"l", "i", "f", "e">>, <<"d", "e", "a", "t", "h">>,
      <<"m", "e", "a", "n", "i", "n", "g">>,
      <<"s", "o", "c", "i", "e", "t", "y">>, <<"h", "u", "m", "a", "n">>,
      <<"f", "r", "e", "e", "d", "o", "m">>, <<"t", "r", "u", "t", "h">> }
politicsKeywords ==
    { <<"g", "o", "v", "e", "r", "n", "m", "e", "n", "t">>,
      <<"p", "o", "l", "i", "c", "y">>,
      <<"e", "l", "e", "c", "t", "i", "o", "n">>, <<"l", "a", "w">>,
      <<"r", "i", "g", "h", "t", "s">>,
      <<"d", "e", "m", "o", "c", "r", "a", "c", "y">> }
universalKeywords ==
    { <<"h", "u", "m", "a", "n">>, <<"f", "u", "t", "u", "r", "e">>,
      <<"c", "h", "a", "n", "g", "e">>, <<"w", "o", "r", "l", "d">>,
      <<"n", "e", "w">> }
engagingKeywords ==
    { <<"c", "o", "n", "t", "r", "o", "v", "e", "r", "s", "y">>,
      <<"d", "e", "b", "a", "t", "e">>, <<"v", "s">>,
      <<"s", "h", "o", "u", "l", "d">>, <<"w", "h", "y">>,
      <<"h", "o", "w">> }

checkKeywords(topicLower, keywords) == \E k \in keywords : Includes(topicLower, k)

(* The boosts scoreTopicForPersona applies to a topic for a persona: how   *)
(* many of the four x1.5 domain boosts, and whether x1.3, x1.2 and x1.1.   *)
Boosts(topic, persona) ==
    LET topicLower == ToLower(topic.title)
        styleLower == ToLower(persona.style)
        occupationLower == ToLower(IF persona.occupation = NullTitle THEN <<>> ELSE persona.occupation)
        domain(word, keywords) ==
            IF Includes(occupationLower, word) /\ checkKeywords(topicLower, keywords) THEN 1 ELSE 0
    IN [half |-> domain(<<"s", "c", "i", "e", "n", "t", "i", "s", "t">>, scienceKeywords)
                  + domain(<<"e", "n", "g", "i", "n", "e", "e", "r">>, techKeywords)
                  + domain(<<"p", "h", "i", "l", "o", "s", "o", "p", "h", "e", "r">>, philosophyKeywords)
                  + domain(<<"b", "u", "s", "i", "n", "e", "s", "s">>, businessKeywords),
        politics |-> Includes(styleLower, <<"p", "o", "l", "i", "t", "i", "c">>) /\ checkKeywords(topicLower, politicsKeywords),
        universal |-> checkKeywords(topicLower, universalKeywords),
        engaging |-> checkKeywords(topicLower, engagingKeywords)]

Pow(b, n) == IF n = 0 THEN 1 ELSE IF n = 1 THEN b ELSE IF n = 2 THEN b * b
             ELSE IF n = 3 THEN b * b * b ELSE b * b * b * b

(* scoreTopicForPersona, in units of 1/8000: 1.5 = 3/2 up to four times,   *)
(* 1.3 = 13/10, 1.2 = 6/5, 1.1 = 11/10.                                    *)
scoreTopicForPersona(topic, persona) ==
    LET b == Boosts(topic, persona)
        base == IF topic.score = NoScore THEN BaseScore ELSE topic.score
    IN base * Pow(3, b.half) * Pow(2, 4 - b.half)
            * (IF b.politics THEN 13 ELSE 10)
            * (IF b.universal THEN 6 ELSE 5)
            * (IF b.engaging THEN 11 ELSE 10)

ExcludedOneWay(title, excludeTitles) ==
    \E e \in excludeTitles : Includes(ToLower(title), ToLower(e))

(* The filter of getBestTopicForPersona: a trend is left out when its      *)
(* title contains, or is contained in, an excluded title (lower case).     *)
Excluded(title, excludeTitles) ==
    \E e \in excludeTitles :
        Includes(ToLower(title), ToLower(e)) \/ Includes(ToLower(e), ToLower(title))

BestTopicChoicesAnyAvailable(trends, persona, excludeTitles) ==
    LET available == { i \in 1..Len(trends) : ~Excluded(trends[i].title, excludeTitles) }
    IN IF Len(trends) = 0 THEN {}
       ELSE IF available = {} THEN {trends[1]}
       ELSE { trends[i] : i \in available }

(* getBestTopicForPersona: the trends it may return; empty for null.  The  *)
(* sort is stable, so among equal scores feed order decides; scores that   *)
(* are equal as fractions but come from different boosts may differ in     *)
(* floating point, and either order is allowed for.                        *)
BestTopicChoices(trends, persona, excludeTitles) ==
    LET available == { i \in 1..Len(trends) : ~Excluded(trends[i].title, excludeTitles) }
        score == [i \in available |-> scoreTopicForPersona(trends[i], persona)]
        boosts == [i \in available |-> Boosts(trends[i], persona)]
        sameArithmetic(i, j) == boosts[i] = boosts[j] /\ trends[i].score = trends[j].score
        before(j, i) == \/ score[j] > score[i]
                        \/ score[j] = score[i] /\ sameArithmetic(i, j) /\ j < i
    IN IF Len(trends) = 0 THEN {}
       ELSE IF available = {} THEN {trends[1]}
       ELSE { trends[i] : i \in { k \in available :
                   Cardinality({ j \in available : before(j, k) }) < TopN } }

(* ------------------------------ schedules ----------------------------- *)
ScheduleIds == 1..MaxSchedules
RequestSlots == 1..MaxInFlight

(* A posting time "HH:MM" as its four digits.                              *)
Slot(h, m) == <<h \div 10, h % 10, m \div 10, m % 10>>
DefaultTimes == {Slot(9, 0), Slot(15, 0), Slot(21, 0)}

NoSchedule == [state |-> "NONE", personaId |-> NullId, accountId |-> NullId,
               active |-> FALSE, autoApprove |-> FALSE, postingTimes |-> {}]
GoneSchedule == [NoSchedule EXCEPT !.state = "GONE"]
ScheduleRow(persona, account, active, auto, times) ==
    [state |-> "ROW", personaId |-> persona, accountId |-> account,
     active |-> active, autoApprove |-> auto, postingTimes |-> times]

NoRequest == [personaId |-> NullId, accountId |-> NullId]
NoResponse == [op |-> "none", result |-> "none"]

(* The unique index over (personaId, accountId) that the compound key      *)
(* personaId_accountId of findUnique names: an insert or update that would *)
(* give a second row the same pair fails.                                  *)
UniqueViolation(rows, id, persona, account) ==
    \E j \in ScheduleIds \ {id} :
        rows[j].state = "ROW" /\ rows[j].personaId = persona /\ rows[j].accountId = account

CreateRejectsNothing(persona, account) == FALSE

(* findUnique({personaId_accountId}) of router.post('/') finds a row.      *)
CreateRejects(persona, account) ==
    \E j \in ScheduleIds :
        schedules[j].state = "ROW" /\ schedules[j].personaId = persona
                                   /\ schedules[j].accountId = account

(* router.post('/'), up to the lookup: 400 when a row exists, else the     *)
(* request goes on to the insert.                                          *)
CreateScheduleLookup(slot, persona, account) ==
    /\ pending[slot] = NoRequest
    /\ IF CreateRejects(persona, account)
       THEN /\ schedResp' = [op |-> "create", result |-> "conflict"]
            /\ UNCHANGED pending
       ELSE /\ pending' = [pending EXCEPT ![slot] = [personaId |-> persona, accountId |-> account]]
            /\ schedResp' = [op |-> "create", result |-> "lookup"]
    /\ UNCHANGED <<schedules, nextSched, notSched>>

(* router.post('/'), the insert: prisma.schedule.create with the schema's  *)
(* defaults; the unique index rejects a pair that exists by now.           *)
CreateScheduleInsert(slot) ==
    /\ pending[slot] # NoRequest
    /\ pending' = [pending EXCEPT ![slot] = NoRequest]
    /\ LET req == pending[slot]
       IN IF UniqueViolation(schedules, 0, req.personaId, req.accountId)
          THEN /\ schedResp' = [op |-> "create", result |-> "dberror"]
               /\ UNCHANGED <<schedules, nextSched>>
          ELSE /\ nextSched < MaxSchedules
               /\ schedules' = [schedules EXCEPT ![nextSched + 1] =
                      ScheduleRow(req.personaId, req.accountId, TRUE, FALSE, DefaultTimes)]
               /\ nextSched' = nextSched + 1
               /\ schedResp' = [op |-> "create", result |-> "created"]
    /\ UNCHANGED notSched

(* router.put('/:id'): ScheduleSchema.partial(); absent keys keep the      *)
(* column.                                                                 *)
UpdateSchedule(id, persona, account, active) ==
    /\ schedules[id].state = "ROW"
    /\ LET row == schedules[id]
           newPersona == IF persona = AbsentId THEN row.personaId ELSE persona
           newAccount == IF account = AbsentId THEN row.accountId ELSE account
           newActive == IF active = Absent THEN row.active ELSE active = "true"
       IN IF UniqueViolation(schedules, id, newPersona, newAccount)
          THEN /\ schedResp' = [op |-> "update", result |-> "dberror"]
               /\ UNCHANGED schedules
          ELSE /\ schedules' = [schedules EXCEPT ![id] =
                      [row EXCEPT !.personaId = newPersona, !.accountId = newAccount,
                                  !.active = newActive]]
               /\ schedResp' = [op |-> "update", result |-> "ok"]
    /\ UNCHANGED <<nextSched, pending, notSched>>

(* router.patch('/:id/toggle')                                             *)
ToggleSchedule(id) ==
    /\ schedules[id].state = "ROW"
    /\ schedules' = [schedules EXCEPT ![id].active = ~@]
    /\ schedResp' = [op |-> "toggle", result |-> "ok"]
    /\ UNCHANGED <<nextSched, pending, notSched>>

(* router.delete('/:id')                                                   *)
DeleteSchedule(id) ==
    /\ schedules[id].state = "ROW"
    /\ schedules' = [schedules EXCEPT ![id] = GoneSchedule]
    /\ schedResp' = [op |-> "delete", result |-> "ok"]
    /\ UNCHANGED <<nextSched, pending, notSched>>

NoSchedules ==
    /\ schedules = [i \in ScheduleIds |-> NoSchedule]
    /\ nextSched = 0
    /\ pending = [r \in RequestSlots |-> NoRequest]
    /\ schedResp = NoResponse

(* ------------------------- scheduled generation ----------------------- *)
RecentTake == 20
DelaySteps == 10

(* The personas the schedules refer to: the columns scoring reads.         *)
Personas ==
    [p \in PersonaIds |->
        IF p = 1 THEN [style |-> <<"P", "o", "l", "i", "t", "i", "c", "a", "l">>, occupation |-> <<"S", "c", "i", "e", "n", "t", "i", "s", "t">>]
                 ELSE [style |-> <<"d", "r", "y">>, occupation |-> NullTitle]]

(* A Topic row; createdAt is the column's default, now().                  *)
TopicRow(type, source, title, active) ==
    [type |-> type, source |-> source, title |-> title, active |-> active, createdAt |-> now]

(* now.getUTCHours().toString().padStart(2, '0') + ':00'                   *)
HourLabel == Slot((now \div 60) % 24, 0)

MatchingSchedulesAnyMinute ==
    { i \in ScheduleIds : /\ schedules[i].state = "ROW"
                          /\ schedules[i].active
                          /\ \E t \in schedules[i].postingTimes :
                                t[1] = HourLabel[1] /\ t[2] = HourLabel[2] }

(* where: { active: true, postingTimes: { has: currentHour } }             *)
MatchingSchedules ==
    { i \in ScheduleIds : /\ schedules[i].state = "ROW"
                          /\ schedules[i].active
                          /\ HourLabel \in schedules[i].postingTimes }

GenQueues(matching) ==
    { q \in [1..Cardinality(matching) -> matching] : \A i, j \in DOMAIN q : i # j => q[i] # q[j] }

GenSnapshot(q) ==
    [i \in DOMAIN q |-> [id |-> q[i], personaId |-> schedules[q[i]].personaId,
                         accountId |-> schedules[q[i]].accountId,
                         autoApprove |-> schedules[q[i]].autoApprove]]

(* made and failed count, per schedule, the posts created and the errors   *)
(* caught in the current (or last) tick.                                   *)
IdleGen == [pc |-> "idle", queue |-> <<>>, made |-> [i \in ScheduleIds |-> 0],
            failed |-> [i \in ScheduleIds |-> 0]]
NoGenLog == [result |-> "none", cause |-> "none", pool |-> "none", schedule |-> NullId,
             autoApprove |-> FALSE,
             source |-> NullTitle, title |-> NullTitle, post |-> NullId, at |-> NullTime]

(* The topics of the persona's 20 latest posts that have one (ids follow   *)
(* creation order).                                                        *)
RecentTopics(persona) ==
    LET mine == { p \in PostIds : /\ Exists(posts[p])
                                  /\ posts[p].personaId = persona
                                  /\ posts[p].topic # NullTitle }
        latest == { p \in mine : Cardinality({ q \in mine : q > p }) < RecentTake }
    IN { posts[p].topic : p \in latest }

(* where: { active: true, type: 'MANUAL' }                                 *)
ManualTopics ==
    { topics[i] : i \in { k \in 1..Len(topics) : topics[k].active /\ topics[k].type = "MANUAL" } }

SelectionsManualFirst(schedule) ==
    LET best == BestTopicChoices(FetchAllTrends(feed), Personas[schedule.personaId],
                                 RecentTopics(schedule.personaId))
    IN IF ManualTopics = {}
       THEN { [source |-> t.title, title |-> t.title, pool |-> "trending"] : t \in best }
       ELSE { [source |-> t.source, title |-> t.title, pool |-> "manual"] : t \in ManualTopics }

(* The (topicSource, topicTitle) pairs the loop body may hand to           *)
(* generateAndSavePost for a schedule, and the branch they come from: the  *)
(* best trend as both, else (bestTopic is null) a manual topic's source    *)
(* and title; empty when it skips the schedule.                            *)
Selections(schedule) ==
    LET best == BestTopicChoices(FetchAllTrends(feed), Personas[schedule.personaId],
                                 RecentTopics(schedule.personaId))
    IN IF best # {}
       THEN { [source |-> t.title, title |-> t.title, pool |-> "trending"] : t \in best }
       ELSE { [source |-> t.source, title |-> t.title, pool |-> "manual"] : t \in ManualTopics }

PostTopicSourceOnly(topicSource, topicTitle) == topicSource

(* topic: topicTitle || topicSource                                        *)
PostTopic(topicSource, topicTitle) ==
    IF topicTitle \in {NullTitle, <<>>} THEN topicSource ELSE topicTitle

GenStatusAlwaysPending(autoApprove) == "PENDING"

(* status: schedule.autoApprove ? 'SCHEDULED' : 'PENDING'                  *)
GenStatus(autoApprove) == IF autoApprove THEN "SCHEDULED" ELSE "PENDING"

(* scheduledAt: schedule.autoApprove ? new Date(Date.now() + delay) : null *)
GenScheduledAt(autoApprove, delay) == IF autoApprove THEN now + delay ELSE NullTime

(* generateScheduledPosts, up to the start of the loop; cron '0 * * * *'.  *)
GenStart ==
    /\ gen.pc = "idle"
    /\ now % 60 = 0
    /\ \E q \in GenQueues(MatchingSchedules) :
          gen' = IF q = <<>> THEN IdleGen
                 ELSE [pc |-> "run", queue |-> GenSnapshot(q), made |-> IdleGen.made,
                       failed |-> IdleGen.failed]
    /\ genLog' = NoGenLog
    /\ UNCHANGED <<feed, topics, syncLog, lifeVars, schedVars, auxVars>>

RestOfGen ==
    IF Len(gen.queue) = 1 THEN [gen EXCEPT !.pc = "idle", !.queue = <<>>]
    ELSE [gen EXCEPT !.queue = Tail(@)]

(* catch (error) { console.error(...) } of the loop body: the error is     *)
(* logged and the for loop goes on with the next schedule.                 *)
AfterGenErrorAborts(schedule) ==
    [gen EXCEPT !.pc = "idle", !.queue = <<>>, !.failed[schedule.id] = @ + 1]

AfterGenErrorRetries(schedule) == [gen EXCEPT !.failed[schedule.id] = @ + 1]

AfterGenError(schedule) == [RestOfGen EXCEPT !.failed[schedule.id] = @ + 1]

(* What the calls of one iteration may do: before a topic is selected the  *)
(* recent-post lookup or the topic selection (a feed fetch) throws; with a *)
(* topic, the AI call or prisma.post.create throws, or all succeed.        *)
GenFailures == {"lookupError", "selectError"}
GenOutcomes == {"ok", "aiError", "createError"}
DelayChoices == 0..(DelaySteps - 1)

GenErrorLog(schedule, cause) ==
    [NoGenLog EXCEPT !.result = "error", !.cause = cause, !.schedule = schedule.id,
                     !.autoApprove = schedule.autoApprove]

(* generateAndSavePost for a schedule of the loop: the AI call or the      *)
(* create throws, or the post is created Math.floor(Math.random() * 10)    *)
(* minutes from now.                                                       *)
GenerateAndSavePost(schedule, sel, outcome, delay) ==
    IF outcome # "ok"
    THEN /\ gen' = AfterGenError(schedule)
         /\ genLog' = GenErrorLog(schedule, outcome)
         /\ UNCHANGED <<posts, nextPost, lastCall, succ>>
    ELSE /\ nextPost < MaxGenerated
         /\ nextPost < MaxPosts
         /\ nextPost' = nextPost + 1
         /\ posts' = [posts EXCEPT ![nextPost + 1] =
               [NoPost EXCEPT !.status = GenStatus(schedule.autoApprove),
                              !.personaId = schedule.personaId,
                              !.accountId = schedule.accountId,
                              !.topic = PostTopic(sel.source, sel.title),
                              !.scheduledAt = GenScheduledAt(schedule.autoApprove, delay)]]
         /\ gen' = [RestOfGen EXCEPT !.made[schedule.id] = @ + 1]
         /\ genLog' = [result |-> "created", cause |-> "none", pool |-> sel.pool,
                       schedule |-> schedule.id,
                       autoApprove |-> schedule.autoApprove,
                       source |-> sel.source, title |-> sel.title,
                       post |-> nextPost + 1, at |-> now]
         /\ lastCall' = 0
         /\ succ' = NoSucc

(* One iteration of the loop: recent-post lookup and topic selection, then *)
(* generateAndSavePost; an error thrown anywhere in the body is caught and *)
(* the loop goes on.                                                       *)
GenStep ==
    /\ gen.pc = "run"
    /\ LET schedule == Head(gen.queue)
           choices == Selections(schedule)
       IN \/ \E cause \in GenFailures :
                /\ gen' = AfterGenError(schedule)
                /\ genLog' = GenErrorLog(schedule, cause)
                /\ UNCHANGED <<posts, nextPost, lastCall, succ>>
          \/ IF choices = {}
             THEN /\ gen' = RestOfGen
                  /\ genLog' = [NoGenLog EXCEPT !.result = "noTopic", !.schedule = schedule.id,
                                                !.autoApprove = schedule.autoApprove]
                  /\ UNCHANGED <<posts, nextPost, lastCall, succ>>
             ELSE \E sel \in choices, outcome \in GenOutcomes, delay \in DelayChoices :
                     GenerateAndSavePost(schedule, sel, outcome, delay)
    /\ UNCHANGED <<now, accounts, sweep, feed, topics, syncLog, schedVars, auxVars>>

(* Time passes within the hour.                                            *)
HourTick ==
    /\ now % 60 < MaxTime
    /\ now' = now + 1
    /\ UNCHANGED <<posts, nextPost, accounts, sweep, lastCall, succ, notLife>>

NoGeneration == gen = IdleGen /\ genLog = NoGenLog

(* ------------------------- topics and trend sync ---------------------- *)
NoSyncLog == [kind |-> "none", feed |-> <<>>, before |-> <<>>, created |-> 0, skipped |-> 0,
              total |-> 0, repeat |-> FALSE]

(* Titles the feeds and the topics API carry.                              *)
Pad(c, n) == [i \in 1..n |-> c]
TitleAI == <<"A", "I">>
TitleAi == <<"a", "i">>
TitleNew == <<"n", "e", "w", " ", "l", "a", "w">>
TitleLongA == Pad("x", DedupWidth) \o <<"a">>
TitleLongB == Pad("x", DedupWidth) \o <<"b">>
Feeds ==
    { <<>>,
      <<Trend(TitleAI, NoScore), Trend(TitleAi, 120)>>,
      <<Trend(TitleNew, NoScore), Trend(TitleAI, 100), Trend(<<>>, NoScore)>>,
      <<Trend(TitleLongA, NoScore), Trend(TitleLongB, 100)>> }

(* The upstream feeds change.                                              *)
FeedChange(f) ==
    /\ feed # f
    /\ feed' = f
    /\ UNCHANGED <<topics, gen, genLog, syncLog, lifeVars, schedVars, auxVars>>

(* router.post('/') of the topics API                                      *)
CreateTopic(row) ==
    /\ Len(topics) < MaxTopics
    /\ topics' = Append(topics, row)
    /\ syncLog' = NoSyncLog
    /\ UNCHANGED <<feed, gen, genLog, lifeVars, schedVars, auxVars>>

(* router.delete('/:id') of the topics API                                 *)
DeleteTopic(i) ==
    /\ i \in 1..Len(topics)
    /\ topics' = SubSeq(topics, 1, i - 1) \o SubSeq(topics, i + 1, Len(topics))
    /\ syncLog' = NoSyncLog
    /\ UNCHANGED <<feed, gen, genLog, lifeVars, schedVars, auxVars>>

(* findFirst({ OR: [{ source: trend.title }, { title: trend.title }] })    *)
EndpointFinds(rows, title) ==
    \E i \in 1..Len(rows) : rows[i].source = title \/ rows[i].title = title

TaskFindsNormalized(rows, title) ==
    \E i \in 1..Len(rows) : rows[i].source = Normalized(title) /\ rows[i].type = "TRENDING"

(* findFirst({ source: trend.title, type: 'TRENDING' })                    *)
TaskFinds(rows, title) ==
    \E i \in 1..Len(rows) : rows[i].source = title /\ rows[i].type = "TRENDING"

(* The loop of a sync over the trends from position i on: the table and    *)
(* the two counters after it.                                              *)
RECURSIVE SyncLoop(_, _, _, _)
SyncLoop(kind, trends, i, acc) ==
    IF i > Len(trends) THEN acc
    ELSE LET title == trends[i].title
             existing == IF kind = "endpoint" THEN EndpointFinds(acc.rows, title)
                         ELSE TaskFinds(acc.rows, title)
         IN SyncLoop(kind, trends, i + 1,
               IF existing
               THEN [acc EXCEPT !.skipped = @ + 1]
               ELSE [acc EXCEPT !.created = @ + 1,
                                !.rows = Append(@, TopicRow("TRENDING", title, title, TRUE))])

SyncRun(kind) ==
    LET trends == FetchAllTrends(feed)
        result == SyncLoop(kind, trends, 1, [rows |-> topics, created |-> 0, skipped |-> 0])
    IN /\ Len(result.rows) <= MaxTopics
       /\ topics' = result.rows
       /\ syncLog' = [kind |-> kind, feed |-> feed, before |-> topics,
                      created |-> result.created, skipped |-> result.skipped,
                      total |-> Len(trends),
                      repeat |-> syncLog.kind = kind /\ syncLog.feed = feed]
       /\ UNCHANGED <<feed, gen, genLog, lifeVars, schedVars, auxVars>>

(* router.post('/sync') of the trends API                                  *)
SyncEndpoint == SyncRun("endpoint")

(* syncTrendingTopics, cron '0 */2 * * *'                                  *)
SyncTask == now % 120 = 0 /\ SyncRun("task")

NoTopics == feed = <<>> /\ topics = <<>> /\ syncLog = NoSyncLog

(* ---------------------------- topic cleanup --------------------------- *)
RetentionDays == 7
Retention == RetentionDays * 24 * 60
NoCleanLog == [kind |-> "none", at |-> NullTime, before |-> <<>>, deleted |-> 0]

CleanupKeepsRecentOnly(row) == row.createdAt >= now - Retention

(* deleteMany({ where: { type: 'TRENDING', createdAt: { lt: weekAgo } } }) *)
(* leaves the rows the filter does not match.                              *)
CleanupKeeps(row) == ~(row.type = "TRENDING" /\ row.createdAt < now - Retention)

Cleanup(kind) ==
    LET kept == SelectSeq(topics, CleanupKeeps)
    IN /\ topics' = kept
       /\ cleanLog' = [kind |-> kind, at |-> now, before |-> topics,
                       deleted |-> Len(topics) - Len(kept)]
       /\ syncLog' = NoSyncLog
       /\ UNCHANGED <<feed, gen, genLog, pick, resp, wire, refresh, lifeVars, schedVars>>

(* router.delete('/cleanup') of the trends API                             *)
CleanupEndpoint == Cleanup("endpoint")

(* cleanupOldTopics, cron '0 4 * * 0': Sundays at 04:00 (minute 0 of the   *)
(* clock is a Thursday at 00:00).                                          *)
CleanupTask == now % (7 * 24 * 60) = (3 * 24 + 4) * 60 /\ Cleanup("task")

(* --------------------------- topic selection -------------------------- *)
NoTrend == Trend(NullTitle, NoScore)
NoPick == [called |-> FALSE, persona |-> NullId, exclude |-> {}, pool |-> <<>>, result |-> NoTrend]

(* A call getBestTopicForPersona(persona, excludeTitles): the pool is      *)
(* fetched, and the result is null (NoTrend) or one of the choices.        *)
SelectTopic(persona, excludeTitles) ==
    /\ LET pool == FetchAllTrends(feed)
           choices == BestTopicChoices(pool, Personas[persona], excludeTitles)
       IN \E result \in (IF choices = {} THEN {NoTrend} ELSE choices) :
             pick' = [called |-> TRUE, persona |-> persona, exclude |-> excludeTitles,
                      pool |-> pool, result |-> result]
    /\ UNCHANGED <<cleanLog, resp, wire, refresh, lifeVars, schedVars, genVars>>

NoAux ==
    cleanLog = NoCleanLog /\ pick = NoPick /\ resp = NoResp /\ wire = NoWire /\ refresh = NoRefresh

(* --------------------------- specification ---------------------------- *)
Init ==
    /\ now = 0
    /\ posts = [p \in PostIds |-> NoPost]
    /\ nextPost = 0
    /\ accounts \in { a \in [AccountIds -> ManualAccounts] : a[2] = OAuthAccount }
    /\ sweep = NoSweeps
    /\ lastCall = 0
    /\ succ = NoSucc
    /\ NoSchedules
    /\ NoGeneration
    /\ NoTopics
    /\ NoAux

ApiCreate == \E st \in StatusInputs, acct \in AccountInputs, sched \in {NullTime} \cup TimeInputs :
                CreatePost(st, acct, sched)
(* Request bodies of PUT /:id: each carries one of the keys status,       *)
(* accountId, scheduledAt (a body with several keys acts as the bodies    *)
(* with one key each, applied in turn).                                   *)
UpdateBodies ==
    { <<st, AbsentId, AbsentTime>> : st \in StatusInputs }
    \cup { <<Absent, acct, AbsentTime>> : acct \in AccountInputs }
    \cup { <<Absent, AbsentId, sched>> : sched \in {NullTime} \cup TimeInputs }
ApiUpdate == \E p \in PostIds, body \in UpdateBodies : UpdatePost(p, body[1], body[2], body[3])
ApiDelete == \E p \in PostIds : DeletePost(p)
ApiBulkStatus == \E ids \in SUBSET PostIds, st \in StatusInputs : BulkStatus(ids, st)
ApiApprove == \E p \in PostIds : ApprovePost(p)
ApiReject == \E p \in PostIds : RejectPost(p)
ScheduleTimes == {NullTime} \cup TimeInputs
ApiSchedule == \E p \in PostIds, sched \in ScheduleTimes, acct \in AccountInputs :
                  SchedulePost(p, sched, acct)
ApiSchedulePatch == \E p \in PostIds, sched \in ScheduleTimes, acct \in AccountInputs :
                       SchedulePatch(p, sched, acct)
ApiPublishNow == \E p \in PostIds, outcome \in PublishOutcomes : PublishNow(p, outcome)
ApiDisconnect == \E a \in PostAccounts : Disconnect(a)

Next ==
    \/ ApiCreate
    \/ ApiUpdate
    \/ ApiDelete
    \/ ApiBulkStatus
    \/ ApiApprove
    \/ ApiReject
    \/ ApiSchedule
    \/ ApiSchedulePatch
    \/ ApiPublishNow
    \/ ApiDisconnect
    \/ SweepStart(1)
    \/ SweepNoCredential(1)
    \/ \E outcome \in PublishOutcomes : SweepPublish(1, outcome)
    \/ SweepAbort(1)
    \/ Tick

Spec == Init /\ [][Next]_vars

(* In Spec and SpecSweep a call of processScheduledPosts has returned      *)
(* before the next one starts (slot 1 alone); SpecOverlap has the calls    *)
(* of several minutes in flight.                                           *)
(* The scheduler alone, over a store filled through the API beforehand:    *)
(* every row is one POST / can create (any status, account and             *)
(* scheduledAt; publishedAt, threadsId and error are null).                *)
CreatableRows ==
    { [NoPost EXCEPT !.status = st, !.personaId = 1, !.accountId = acct, !.scheduledAt = sched] :
        st \in StatusInputs, acct \in AccountInputs, sched \in {NullTime} \cup TimeInputs }

InitSweep ==
    /\ now = 0
    /\ nextPost \in 1..MaxPosts
    /\ posts \in { f \in [PostIds -> CreatableRows \cup {NoPost}] :
                      \A p \in PostIds : Exists(f[p]) <=> p <= nextPost }
    /\ accounts \in { a \in [AccountIds -> ManualAccounts] : a[2] = OAuthAccount }
    /\ sweep = NoSweeps
    /\ lastCall = 0
    /\ succ = NoSucc
    /\ NoSchedules
    /\ NoGeneration
    /\ NoTopics
    /\ NoAux

NextSweep ==
    \/ SweepStart(1)
    \/ SweepNoCredential(1)
    \/ \E outcome \in PublishOutcomes : SweepPublish(1, outcome)
    \/ SweepAbort(1)
    \/ Tick
    \/ ApiDelete
    \/ ApiDisconnect

SpecSweep == InitSweep /\ [][NextSweep]_vars

(* The sweep task keeps ticking, time advances and every publish call      *)
(* returns; no row is deleted.                                             *)
NextSweepLive ==
    \/ SweepStart(1)
    \/ SweepNoCredential(1)
    \/ \E outcome \in PublishOutcomes : SweepPublish(1, outcome)
    \/ Tick

SpecSweepLive ==
    /\ InitSweep
    /\ [][NextSweepLive]_vars
    /\ WF_vars(SweepStart(1))
    /\ WF_vars(SweepNoCredential(1))
    /\ WF_vars(\E outcome \in PublishOutcomes : SweepPublish(1, outcome))
    /\ WF_vars(Tick)

(* Sweeps that overlap: the call of a minute is still waiting for the      *)
(* platform when the call of the next minute starts.                       *)
OverlapRows ==
    { [NoPost EXCEPT !.status = st, !.personaId = 1, !.accountId = acct, !.scheduledAt = sched] :
        st \in {"SCHEDULED", "APPROVED"}, acct \in AccountInputs, sched \in 0..MaxTime }

InitOverlap ==
    /\ now = 0
    /\ nextPost \in 1..MaxPosts
    /\ posts \in { f \in [PostIds -> OverlapRows \cup {NoPost}] :
                      \A p \in PostIds : Exists(f[p]) <=> p <= nextPost }
    /\ accounts \in { a \in [AccountIds -> ManualAccounts] : a[2] = OAuthAccount }
    /\ sweep = NoSweeps
    /\ lastCall = 0
    /\ succ = NoSucc
    /\ NoSchedules
    /\ NoGeneration
    /\ NoTopics
    /\ NoAux

NextOverlap ==
    \/ \E k \in SweepSlots : SweepStart(k)
    \/ \E k \in SweepSlots : SweepNoCredential(k)
    \/ \E k \in SweepSlots, outcome \in PublishOutcomes : SweepPublish(k, outcome)
    \/ Tick

SpecOverlap == InitOverlap /\ [][NextOverlap]_vars

(* The schedules API with concurrent requests, over an empty store.        *)
NoPosts ==
    /\ now = 0
    /\ posts = [p \in PostIds |-> NoPost]
    /\ nextPost = 0
    /\ accounts = [a \in AccountIds |-> OAuthAccount]
    /\ sweep = NoSweeps
    /\ lastCall = 0
    /\ succ = NoSucc

InitSched == NoPosts /\ NoSchedules /\ NoGeneration /\ NoTopics /\ NoAux

ApiCreateScheduleLookup ==
    \E slot \in RequestSlots, persona \in PersonaIds, account \in AccountIds :
        CreateScheduleLookup(slot, persona, account)
ApiCreateScheduleInsert == \E slot \in RequestSlots : CreateScheduleInsert(slot)
UpdateScheduleBodies ==
    { <<persona, account, Absent>> : persona \in {AbsentId} \cup PersonaIds,
                                     account \in {AbsentId} \cup AccountIds }
    \cup { <<AbsentId, AbsentId, active>> : active \in {"true", "false"} }
ApiUpdateSchedule ==
    \E id \in ScheduleIds, body \in UpdateScheduleBodies :
        UpdateSchedule(id, body[1], body[2], body[3])
ApiToggleSchedule == \E id \in ScheduleIds : ToggleSchedule(id)
ApiDeleteSchedule == \E id \in ScheduleIds : DeleteSchedule(id)

NextSched ==
    \/ ApiCreateScheduleLookup
    \/ ApiCreateScheduleInsert
    \/ ApiUpdateSchedule
    \/ ApiToggleSchedule
    \/ ApiDeleteSchedule

SpecSched == InitSched /\ [][NextSched]_vars

(* Disconnecting accounts that posts and a schedule reference: every       *)
(* account starts with an access token, with or without a refresh token,   *)
(* active or not.                                                          *)
AccountRows ==
    { [Account("tok", uid, exp) EXCEPT !.refreshToken = rt, !.active = act, !.name = "main"] :
        uid \in {"uid", NullStr}, exp \in {FarExpiry, NullTime},
        rt \in {"refresh", NullStr}, act \in BOOLEAN }

DisconnectPostRows ==
    { [NoPost EXCEPT !.status = st, !.personaId = 1, !.accountId = acct, !.scheduledAt = 1] :
        st \in {"SCHEDULED", "PUBLISHED"}, acct \in {NullId} \cup AccountIds }

InitDisconnect ==
    /\ now = 0
    /\ nextPost = 1
    /\ posts \in { f \in [PostIds -> DisconnectPostRows \cup {NoPost}] :
                      \A p \in PostIds : Exists(f[p]) <=> p <= nextPost }
    /\ accounts \in [AccountIds -> AccountRows]
    /\ sweep = NoSweeps
    /\ lastCall = 0
    /\ succ = NoSucc
    /\ \E acct \in AccountIds :
          schedules = [i \in ScheduleIds |->
                          IF i = 1 THEN ScheduleRow(1, acct, TRUE, FALSE, DefaultTimes)
                          ELSE NoSchedule]
    /\ nextSched = 1
    /\ pending = [r \in RequestSlots |-> NoRequest]
    /\ schedResp = NoResponse
    /\ NoGeneration
    /\ NoTopics
    /\ NoAux

NextDisconnect ==
    \/ \E a \in AccountIds : Disconnect(a)
    \/ ApiDelete
    \/ ApiDeleteSchedule

SpecDisconnect == InitDisconnect /\ [][NextDisconnect]_vars

(* Scheduled generation over stores that schedules, topics and feeds were  *)
(* put into before: the first slot of the Schedule table holds a row, the  *)
(* second a row for the other persona or none: active or not, approving by *)
(* itself or not, posting at the default times or at 09:30.                *)
GenStartTimes == {0, 9 * 60}
GenSlots == {1, 2}
GenScheduleRows(i) ==
    IF i = 1
    THEN { ScheduleRow(1, 1, TRUE, auto, DefaultTimes) : auto \in BOOLEAN }
    ELSE { ScheduleRow(2, 1, TRUE, TRUE, DefaultTimes),
           ScheduleRow(2, 1, FALSE, FALSE, DefaultTimes),
           ScheduleRow(2, 1, TRUE, FALSE, {Slot(9, 30)}) }
GenTopicTables ==
    { <<>>,
      <<TopicRow("MANUAL", TitleAi, TitleNew, TRUE), TopicRow("MANUAL", TitleNew, NullTitle, TRUE),
        TopicRow("MANUAL", TitleAI, <<>>, TRUE), TopicRow("TRENDING", TitleAI, TitleAI, TRUE)>> }
GenFeeds == { <<>>, <<Trend(TitleNew, NoScore), Trend(<<>>, 120)>> }

InitGen ==
    /\ now \in GenStartTimes
    /\ posts = [p \in PostIds |-> NoPost]
    /\ nextPost = 0
    /\ accounts = [a \in AccountIds |-> OAuthAccount]
    /\ sweep = NoSweeps
    /\ lastCall = 0
    /\ succ = NoSucc
    /\ schedules \in [ScheduleIds -> {NoSchedule} \cup UNION { GenScheduleRows(i) : i \in GenSlots }]
    /\ \A i \in ScheduleIds :
          schedules[i] \in IF i = 1 THEN GenScheduleRows(i)
                           ELSE IF i \in GenSlots THEN {NoSchedule} \cup GenScheduleRows(i)
                           ELSE {NoSchedule}
    /\ nextSched = MaxSchedules
    /\ pending = [r \in RequestSlots |-> NoRequest]
    /\ schedResp = NoResponse
    /\ feed \in GenFeeds
    /\ topics \in GenTopicTables
    /\ syncLog = NoSyncLog
    /\ NoGeneration
    /\ NoAux

NextGen ==
    \/ GenStart
    \/ GenStep
    \/ HourTick

SpecGen == InitGen /\ [][NextGen]_vars

(* Trend sync, by the endpoint and by the scheduler's task, against feeds  *)
(* that change and a Topic table the topics API edits.                     *)
InitSync == NoPosts /\ NoSchedules /\ NoGeneration /\ NoTopics /\ NoAux

SyncTopicInputs ==
    { TopicRow("MANUAL", TitleAI, NullTitle, TRUE),
      TopicRow("TRENDING", TitleNew, TitleAi, TRUE) }

NextSync ==
    \/ SyncEndpoint
    \/ SyncTask
    \/ \E f \in Feeds : FeedChange(f)
    \/ \E row \in SyncTopicInputs : CreateTopic(row)
    \/ \E i \in 1..MaxTopics : DeleteTopic(i)

SpecSync == InitSync /\ [][NextSync]_vars

(* Topic cleanup, by the endpoint and by the scheduler's task, on the      *)
(* second Sunday of the clock at 04:00 and the minutes after it, over      *)
(* Topic tables with rows of both types created around the retention limit.*)
CleanupStart == (7 + 3) * 24 * 60 + 4 * 60
CleanupAges == {0, 1, Retention - 1, Retention, Retention + 1, Retention + 2}
CleanupRows ==
    { [type |-> type, source |-> <<"s">>, title |-> NullTitle, active |-> TRUE,
       createdAt |-> CleanupStart - age] : type \in {"MANUAL", "TRENDING"}, age \in CleanupAges }

InitCleanup ==
    /\ now = CleanupStart
    /\ posts = [p \in PostIds |-> NoPost]
    /\ nextPost = 0
    /\ accounts = [a \in AccountIds |-> OAuthAccount]
    /\ sweep = NoSweeps
    /\ lastCall = 0
    /\ succ = NoSucc
    /\ NoSchedules /\ NoGeneration /\ NoAux
    /\ feed = <<>>
    /\ syncLog = NoSyncLog
    /\ \E n \in 0..MaxTopics : topics \in [1..n -> CleanupRows]

NextCleanup ==
    \/ CleanupEndpoint
    \/ CleanupTask
    \/ HourTick

SpecCleanup == InitCleanup /\ [][NextCleanup]_vars

(* Topic selection for every persona over pools the feeds return and       *)
(* exclusion sets of recent titles.                                        *)
ExcludeTitles == { <<>>, TitleAi, TitleNew, <<"N", "e", "w", " ", "L", "a", "w", "s">>, <<"w">> }
ExcludeSets == SUBSET ExcludeTitles

InitSelect ==
    /\ NoPosts /\ NoSchedules /\ NoGeneration /\ NoAux
    /\ feed \in Feeds
    /\ topics = <<>>
    /\ syncLog = NoSyncLog

NextSelect ==
    \/ \E persona \in PersonaIds, excludeTitles \in ExcludeSets : SelectTopic(persona, excludeTitles)
    \/ \E f \in Feeds : FeedChange(f)

SpecSelect == InitSelect /\ [][NextSelect]_vars

(* Topic selection over pools of more than five trends: seven trends that  *)
(* each persona scores in its own order, with equal scores among them, and *)
(* exclusion sets that leave seven, six, five or three of them.            *)
TitleZz == <<"z", "z">>
TitleSpace == <<"s", "p", "a", "c", "e">>
TitleLaw == <<"l", "a", "w">>
TitleWhy == <<"w", "h", "y">>
TitleQq == <<"q", "q">>
TopFeeds ==
    { <<Trend(TitleZz, 60), Trend(TitleSpace, 50), Trend(TitleLaw, 55), Trend(TitleNew, 40),
        Trend(TitleWhy, 45), Trend(TitleQq, NoScore), Trend(TitleAi, 48)>>,
      <<Trend(TitleAi, 48), Trend(TitleQq, NoScore), Trend(TitleWhy, 45), Trend(TitleNew, 40),
        Trend(TitleLaw, 55), Trend(TitleSpace, 50), Trend(TitleZz, 60)>>,
      <<Trend(TitleQq, 10), Trend(TitleSpace, 50), Trend(TitleLaw, 55), Trend(TitleNew, 40),
        Trend(TitleWhy, 45), Trend(TitleZz, NoScore), Trend(TitleAi, 70)>> }
TopExcludes ==
    { {}, {TitleZz}, {TitleZz, TitleLaw}, {TitleQq, TitleWhy}, {TitleZz, TitleLaw, TitleWhy, TitleQq} }

InitTop ==
    /\ NoPosts /\ NoSchedules /\ NoGeneration /\ NoAux
    /\ feed \in TopFeeds
    /\ topics = <<>>
    /\ syncLog = NoSyncLog

NextTop ==
    \/ \E persona \in PersonaIds, excludeTitles \in TopExcludes : SelectTopic(persona, excludeTitles)
    \/ \E f \in TopFeeds : FeedChange(f)

SpecTop == InitTop /\ [][NextTop]_vars

(* The daily token refresh over Account tables as the OAuth callback and   *)
(* the accounts API leave them: active or not, with or without a token,    *)
(* the expiry absent, past, a day ahead, just over a day ahead or nine     *)
(* days ahead; accounts may be disconnected at any time.                   *)
RefreshRows ==
    { [Account(tok, "uid", exp) EXCEPT !.active = act] :
        tok \in {"tok", NullStr}, act \in BOOLEAN,
        exp \in {NullTime, 0, 2 * Day, 2 * Day + 1, 9 * Day} }

InitRefresh ==
    /\ now = Day
    /\ posts = [p \in PostIds |-> NoPost]
    /\ nextPost = 0
    /\ accounts \in [AccountIds -> RefreshRows]
    /\ sweep = NoSweeps
    /\ lastCall = 0
    /\ succ = NoSucc
    /\ NoSchedules
    /\ NoGeneration
    /\ NoTopics
    /\ cleanLog = NoCleanLog /\ pick = NoPick /\ resp = NoResp /\ wire = NoWire
    /\ refresh = [NoRefresh EXCEPT !.watched =
                     { a \in AccountIds : /\ accounts[a].active
                                          /\ accounts[a].accessToken # NullStr
                                          /\ accounts[a].tokenExpiresAt # NullTime
                                          /\ accounts[a].tokenExpiresAt > now + Day }]

NextRefresh ==
    \/ RefreshStart
    \/ \E ok \in BOOLEAN, expiresIn \in Lifetimes : RefreshStep(ok, expiresIn)
    \/ DayPasses
    \/ ApiDisconnect

SpecRefresh == InitRefresh /\ [][NextRefresh]_vars

(* ------------------------------ claims -------------------------------- *)
SweepHead == Head(sweep[1].queue)

(* The sweep processes post p in this step.                                *)
SweepProcesses(p) ==
    /\ sweep[1].pc = "run"
    /\ SweepHead.id = p
    /\ sweep' # sweep

Expired(acc) == acc.tokenExpiresAt # NullTime /\ acc.tokenExpiresAt <= now

LegalEdges ==
    { <<"DRAFT", "APPROVED">>, <<"PENDING", "APPROVED">>,
      <<"DRAFT", "REJECTED">>, <<"PENDING", "REJECTED">>,
      <<"APPROVED", "SCHEDULED">>,
      <<"SCHEDULED", "PUBLISHED">>, <<"SCHEDULED", "FAILED">>,
      <<"APPROVED", "PUBLISHED">>, <<"APPROVED", "FAILED">> }

(* C1: every change of a post's status follows one of the edges of the     *)
(* lifecycle; in particular no step takes a DRAFT post to PUBLISHED.       *)
C1_OnlyLegalEdges ==
    [][\A p \in PostIds :
          (Exists(posts[p]) /\ Exists(posts'[p]) /\ posts'[p].status # posts[p].status)
              => <<posts[p].status, posts'[p].status>> \in LegalEdges]_vars

(* C2: publishedAt is non-null exactly when the status is PUBLISHED.       *)
C2_PublishedAtIffPublished ==
    \A p \in PostIds :
        Exists(posts[p]) => (posts[p].publishedAt # NullTime <=> posts[p].status = "PUBLISHED")

(* C3: a non-null error implies the status FAILED.                         *)
C3_ErrorOnlyWhenFailed ==
    \A p \in PostIds :
        (Exists(posts[p]) /\ posts[p].error # NullStr) => posts[p].status = "FAILED"

(* C4: over two sweeps in immediate succession, every post due at the      *)
(* first sweep has left SCHEDULED for PUBLISHED or FAILED when the first    *)
(* sweep ends, the second sweep selects none of them, and none of them is  *)
(* handed to the platform more than once.                                  *)
C4_SweepTwicePublishesOnce ==
    /\ succ.phase \in {"between", "second", "done"} =>
          \A p \in succ.due : posts[p].status \in {"PUBLISHED", "FAILED"}
    /\ succ.second \cap succ.due = {}
    /\ \A p \in succ.due : succ.cnt[p] <= 1

C4_Witness ==
    /\ succ.phase = "done"
    /\ \E p \in succ.due : succ.cnt[p] = 1 /\ posts[p].status = "PUBLISHED"
    /\ \E p \in succ.due : posts[p].status = "FAILED"

(* C8: when the sweep processes a SCHEDULED post whose account is missing  *)
(* or lacks the token or the platform user id, the post becomes FAILED     *)
(* with the missing-credential error and the platform is not called.       *)
C8_NoCredentialFailsWithoutCall ==
    [][\A p \in PostIds :
          (SweepProcesses(p) /\ NoCredential(SweepHead.account) /\ posts[p].status = "SCHEDULED")
              => /\ posts'[p].status = "FAILED"
                 /\ posts'[p].error = "No valid Threads account configured"
                 /\ lastCall' = 0]_vars

C8_Witness ==
    \E p \in PostIds :
        /\ posts[p].status = "FAILED"
        /\ posts[p].error = "No valid Threads account configured"
        /\ posts[p].accountId # NullId
        /\ accounts[posts[p].accountId].accessToken # NullStr
        /\ accounts[posts[p].accountId].threadsUserId = NullStr
        /\ lastCall = 0

(* C9: a post handed to the publish pipeline (sweep or publish-now) while  *)
(* its account's token is expired becomes FAILED and the platform is not   *)
(* called.                                                                 *)
C9_ExpiredTokenFailsFast ==
    [][\A p \in PostIds :
          (/\ Exists(posts[p])
           /\ Expired(IncludeAccount(posts[p]))
           /\ \/ SweepProcesses(p) /\ Expired(SweepHead.account)
              \/ \E outcome \in PublishOutcomes : PublishNow(p, outcome))
              => posts'[p].status = "FAILED" /\ lastCall' # p]_vars

SamePair(i, j) ==
    /\ schedules[i].state = "ROW"
    /\ schedules[j].state = "ROW"
    /\ schedules[i].personaId = schedules[j].personaId
    /\ schedules[i].accountId = schedules[j].accountId

(* C5: no two Schedule rows ever share a (personaId, accountId) pair, and  *)
(* a create request for a pair that has a row is rejected and adds no row: *)
(* with the conflict error when the row exists as the request is looked    *)
(* up, by the unique index when it appeared before the insert.             *)
C5_OneSchedulePerPair ==
    /\ [](\A i, j \in ScheduleIds : i # j => ~SamePair(i, j))
    /\ [][\A slot \in RequestSlots, persona \in PersonaIds, account \in AccountIds :
            (CreateScheduleLookup(slot, persona, account)
               /\ UniqueViolation(schedules, 0, persona, account))
                => /\ schedResp'.result = "conflict"
                   /\ schedules' = schedules
                   /\ pending' = pending]_vars
    /\ [][\A slot \in RequestSlots :
            (CreateScheduleInsert(slot)
               /\ UniqueViolation(schedules, 0, pending[slot].personaId, pending[slot].accountId))
                => /\ schedResp'.result = "dberror"
                   /\ schedules' = schedules]_vars

C5_Witness ==
    /\ schedResp = [op |-> "create", result |-> "conflict"]
    /\ \E i \in ScheduleIds : schedules[i].state = "ROW"
    /\ \E slot \in RequestSlots :
          /\ pending[slot] # NoRequest
          /\ UniqueViolation(schedules, 0, pending[slot].personaId, pending[slot].accountId)

(* A step of the generation loop for schedule s that created a post.       *)
GenCreates(s) ==
    /\ gen.pc = "run"
    /\ Head(gen.queue).id = s
    /\ gen' # gen
    /\ genLog'.result = "created"

(* The schedule the loop is at is active and posts at the current hour.    *)
FiresNow(s) ==
    /\ schedules[s].state = "ROW"
    /\ schedules[s].active
    /\ HourLabel \in schedules[s].postingTimes

(* The step added exactly one row to the Post table, row p.                *)
OneNewPost(p) ==
    /\ p = nextPost + 1
    /\ nextPost' = p
    /\ ~Exists(posts[p])
    /\ Exists(posts'[p])
    /\ \A q \in PostIds \ {p} : posts'[q] = posts[q]

(* C6 as stated: a generation tick at hour H for an active schedule with   *)
(* autoApprove = false whose postingTimes has "H:00", when a topic is      *)
(* selected and generation succeeds, creates exactly one post for the      *)
(* schedule: PENDING, topic equal to the selected topic's title,           *)
(* scheduledAt null, the schedule's persona and account.                   *)
C6_TopicIsSelectedTitle ==
    [][\A s \in ScheduleIds :
         (GenCreates(s) /\ FiresNow(s) /\ ~schedules[s].autoApprove)
            => /\ OneNewPost(genLog'.post)
               /\ posts'[genLog'.post].status = "PENDING"
               /\ posts'[genLog'.post].topic = genLog'.title]_vars

(* C6 amended: as above, with the topic equal to the selected topic's      *)
(* title, or to its source when the title is null or empty; and no         *)
(* schedule gets more than one post in a cycle.                            *)
C6_OnePendingPostPerSchedule ==
    /\ [][\A s \in ScheduleIds :
            (GenCreates(s) /\ FiresNow(s) /\ ~schedules[s].autoApprove)
               => LET post == posts'[genLog'.post]
                  IN /\ OneNewPost(genLog'.post)
                     /\ post.status = "PENDING"
                     /\ genLog'.title \notin {NullTitle, <<>>} => post.topic = genLog'.title
                     /\ genLog'.title \in {NullTitle, <<>>} => post.topic = genLog'.source
                     /\ post.scheduledAt = NullTime
                     /\ post.personaId = schedules[s].personaId
                     /\ post.accountId = schedules[s].accountId]_vars
    /\ [](\A s \in ScheduleIds : gen.made[s] <= 1)

C6_Witness ==
    /\ genLog.result = "created"
    /\ ~genLog.autoApprove
    /\ genLog.title = NullTitle
    /\ posts[genLog.post].status = "PENDING"
    /\ posts[genLog.post].topic = genLog.source
    /\ gen.made[genLog.schedule] = 1

(* C7: a generation that succeeds for a schedule with autoApprove = true   *)
(* creates the post SCHEDULED with a scheduledAt t, now <= t <= now + 10   *)
(* minutes, now being the clock reading at creation; never PENDING, never  *)
(* with scheduledAt null.                                                  *)
C7_AutoApprovedIsScheduledSoon ==
    [][\A s \in ScheduleIds :
         (GenCreates(s) /\ schedules[s].autoApprove)
            => LET post == posts'[genLog'.post]
               IN /\ OneNewPost(genLog'.post)
                  /\ post.status = "SCHEDULED"
                  /\ post.scheduledAt # NullTime
                  /\ now <= post.scheduledAt
                  /\ post.scheduledAt <= now + 10]_vars

C7_Witness ==
    /\ genLog.result = "created"
    /\ genLog.autoApprove
    /\ posts[genLog.post].status = "SCHEDULED"
    /\ posts[genLog.post].scheduledAt = genLog.at + 9
    /\ genLog.at > 9 * 60

C11_CleanupDeletesOldTrendingOnly ==
    [][(CleanupEndpoint \/ CleanupTask)
          => LET stays(row) == row.type = "MANUAL" \/ now - row.createdAt <= 7 * 24 * 60
             IN /\ topics' = SelectSeq(topics, stays)
                /\ \A i \in 1..Len(topics) :
                      ~stays(topics[i]) => topics[i].type = "TRENDING"]_vars

C11_Witness ==
    /\ cleanLog.kind = "task"
    /\ cleanLog.deleted >= 1
    /\ \E i \in 1..Len(topics) :
          topics[i].type = "MANUAL" /\ topics[i].createdAt < cleanLog.at - Retention
    /\ \E i \in 1..Len(topics) :
          topics[i].type = "TRENDING" /\ topics[i].createdAt = cleanLog.at - Retention

(* The title matches the exclusion set: it is a substring of one of its    *)
(* titles, or has one of them as a substring, letter case aside.           *)
MatchesAny(title, excludeTitles) ==
    \E e \in excludeTitles :
        \/ Includes(ToLower(e), ToLower(title))
        \/ Includes(ToLower(title), ToLower(e))

(* C12: with a non-empty pool, the topic selected for a persona and an     *)
(* exclusion set E is a candidate of the pool that does not match E,       *)
(* unless every candidate matches E, and then it is the first candidate    *)
(* of the unfiltered pool, the pool being ranked by its order.             *)
C12_SelectedTopicAvoidsExclusions ==
    (pick.called /\ pick.pool # <<>>)
       => IF \A i \in 1..Len(pick.pool) : MatchesAny(pick.pool[i].title, pick.exclude)
          THEN pick.result = pick.pool[1]
          ELSE /\ \E i \in 1..Len(pick.pool) : pick.result = pick.pool[i]
               /\ ~MatchesAny(pick.result.title, pick.exclude)

C12_Witness ==
    /\ pick.called
    /\ Len(pick.pool) >= 2
    /\ pick.exclude # {}
    /\ \A i \in 1..Len(pick.pool) : MatchesAny(pick.pool[i].title, pick.exclude)
    /\ pick.result = pick.pool[1]
    /\ \E i \in 2..Len(pick.pool) : pick.pool[i].score > pick.pool[1].score

(* The other branch of C12 happens too: some candidates match, and one     *)
(* that does not is selected.                                              *)
C12_FilteredBranch ==
    /\ pick.called
    /\ \E i \in 1..Len(pick.pool) : MatchesAny(pick.pool[i].title, pick.exclude)
    /\ ~MatchesAny(pick.result.title, pick.exclude)
    /\ pick.result # NoTrend

TerminalStatuses == {"PUBLISHED", "REJECTED", "FAILED"}

(* C13: PUBLISHED, REJECTED and FAILED are terminal: a post in one of      *)
(* them keeps its status for as long as it exists, and deletion is the     *)
(* only step that changes it.                                              *)
C13_TerminalStatusesStay ==
    [][\A p \in PostIds :
          (Exists(posts[p]) /\ posts[p].status \in TerminalStatuses /\ Exists(posts'[p]))
              => posts'[p].status = posts[p].status]_vars

(* The part of C13 the handlers do satisfy: deletion is accepted from      *)
(* every status.                                                           *)
C13_DeleteFromEveryStatus ==
    \A p \in PostIds : Exists(posts[p]) => ENABLED DeletePost(p)

ScheduleRequest ==
    \E p \in PostIds, sched \in ScheduleTimes, acct \in AccountInputs :
        SchedulePost(p, sched, acct) \/ SchedulePatch(p, sched, acct)

(* C14: a schedule request succeeds only when its body has both            *)
(* scheduledAt (a past time included) and accountId; any other schedule    *)
(* request is answered with an error and leaves the post's status,         *)
(* scheduledAt and accountId as they were.                                 *)
C14_ScheduleNeedsTimeAndAccount ==
    [][ScheduleRequest
          => LET p == resp'.post
             IN IF resp'.scheduledAt # NullTime /\ resp'.accountId # NullId
                THEN resp'.code = 200 /\ posts'[p].status = "SCHEDULED"
                ELSE /\ resp'.code # 200
                     /\ posts'[p].status = posts[p].status
                     /\ posts'[p].scheduledAt = posts[p].scheduledAt
                     /\ posts'[p].accountId = posts[p].accountId]_vars

(* The part of C14 that holds, of the PATCH route alone.                   *)
C14_PatchNeedsTimeAndAccount ==
    [][(ScheduleRequest /\ resp'.op = "schedulePatch")
          => LET p == resp'.post
             IN IF resp'.scheduledAt # NullTime /\ resp'.accountId # NullId
                THEN resp'.code = 200 /\ posts'[p].status = "SCHEDULED"
                ELSE /\ resp'.code # 200
                     /\ posts'[p].status = posts[p].status
                     /\ posts'[p].scheduledAt = posts[p].scheduledAt
                     /\ posts'[p].accountId = posts[p].accountId]_vars

(* C19: when publish-now on an existing APPROVED post completes, the       *)
(* post's status is PUBLISHED or FAILED, also when its account has no      *)
(* usable credential.                                                      *)
C19_PublishNowEndsTerminal ==
    [][\A p \in PostIds :
          (/\ Exists(posts[p])
           /\ posts[p].status = "APPROVED"
           /\ \E outcome \in PublishOutcomes : PublishNow(p, outcome))
              => posts'[p].status \in {"PUBLISHED", "FAILED"}]_vars

(* The part of C19 that holds: with a usable credential publish-now ends   *)
(* PUBLISHED or FAILED.                                                    *)
C19_PublishNowWithCredential ==
    [][\A p \in PostIds :
          (/\ Exists(posts[p])
           /\ ~NoCredential(IncludeAccount(posts[p]))
           /\ \E outcome \in PublishOutcomes : PublishNow(p, outcome))
              => posts'[p].status \in {"PUBLISHED", "FAILED"}]_vars

(* A call of processScheduledPosts calls the platform for post p in this   *)
(* step.                                                                   *)
SweepCalls(p) == sweep' # sweep /\ lastCall' = p

(* C15: once a post is FAILED, no later step of the scheduler calls the    *)
(* publishing platform for it.                                             *)
C15_NoCallForFailedPost ==
    [][\A p \in PostIds :
          (Exists(posts[p]) /\ posts[p].status = "FAILED") => ~SweepCalls(p)]_vars

(* What does hold for C15: a sweep never selects a FAILED post, so a call  *)
(* that starts after the post became FAILED does not contain it.           *)
C15_FailedPostNotSelected ==
    [][\A k \in SweepSlots, p \in PostIds :
          (SweepStart(k) /\ Exists(posts[p]) /\ posts[p].status = "FAILED")
              => \A i \in 1..Len(sweep'[k].queue) : sweep'[k].queue[i].id # p]_vars

(* C18: when a sweep ends, every post it had still to process, the one a   *)
(* failure happened on aside, is PUBLISHED or FAILED if it still exists.   *)
C18_SweepEndsWithAllProcessed ==
    [][(sweep[1].pc = "run" /\ sweep'[1].pc = "idle")
          => \A i \in 2..Len(sweep[1].queue) :
                LET id == sweep[1].queue[i].id
                IN Exists(posts'[id]) => posts'[id].status \in {"PUBLISHED", "FAILED"}]_vars

(* What does hold for C18: a publish error or an exception of the publish  *)
(* call on one post leaves the rest of the sweep's queue to be processed.  *)
C18_PublishFailureContinues ==
    [][\A outcome \in PublishOutcomes :
          (SweepPublish(1, outcome) /\ Len(sweep[1].queue) > 1)
              => sweep'[1] = [sweep[1] EXCEPT !.queue = Tail(@)]]_vars

(* C17: in a generation tick every iteration of the loop, whether it ends  *)
(* in an error (lookup, selection, AI call or create), in a skip or in a   *)
(* post, takes exactly its own schedule off the batch: the tick ends only  *)
(* with the last matching schedule, and an iteration that succeeds has     *)
(* created the post of its schedule.                                       *)
C17_FailureKeepsTheBatch ==
    [][(gen.pc = "run" /\ gen' # gen)
          => LET schedule == Head(gen.queue)
             IN /\ gen'.queue = Tail(gen.queue)
                /\ gen'.pc = "idle" <=> Len(gen.queue) = 1
                /\ genLog'.schedule = schedule.id
                /\ genLog'.result = "created"
                      => /\ posts[genLog'.post] = NoPost
                         /\ posts'[genLog'.post].personaId = schedule.personaId
                         /\ posts'[genLog'.post].accountId = schedule.accountId
                         /\ gen'.made[schedule.id] = gen.made[schedule.id] + 1]_vars

C17_Witness ==
    /\ gen.pc = "idle"
    /\ genLog.result = "created"
    /\ \E i \in ScheduleIds : /\ i # genLog.schedule
                              /\ gen.failed[i] = 1
                              /\ gen.made[i] = 0
    /\ gen.made[genLog.schedule] = 1
    /\ gen.failed[genLog.schedule] = 0

(* C20: disconnecting an account sets its access token, refresh token,     *)
(* token expiry and platform user id to null and changes nothing else:     *)
(* the row keeps its name and active flag, the other accounts, the posts   *)
(* and the schedules are as before, and what referenced the account still  *)
(* resolves to its row.                                                    *)
C20_DisconnectClearsCredentialsOnly ==
    [][\A a \in AccountIds :
          Disconnect(a)
             => /\ accounts'[a].accessToken = NullStr
                /\ accounts'[a].refreshToken = NullStr
                /\ accounts'[a].tokenExpiresAt = NullTime
                /\ accounts'[a].threadsUserId = NullStr
                /\ accounts'[a].name = accounts[a].name
                /\ accounts'[a].active = accounts[a].active
                /\ \A b \in AccountIds \ {a} : accounts'[b] = accounts[b]
                /\ posts' = posts
                /\ schedules' = schedules
                /\ \A p \in PostIds :
                      (Exists(posts[p]) /\ posts[p].accountId = a)
                          => /\ Exists(posts'[p])
                             /\ posts'[p].accountId = a
                             /\ accounts'[posts'[p].accountId].name = accounts[a].name
                /\ \A i \in ScheduleIds :
                      (schedules[i].state = "ROW" /\ schedules[i].accountId = a)
                          => /\ schedules'[i].state = "ROW"
                             /\ accounts'[schedules'[i].accountId].name = accounts[a].name]_vars

(* Every account of SpecDisconnect starts with an access token: one        *)
(* without has been disconnected. Here it had a refresh token or was       *)
(* inactive, and a post and a schedule reference it.                       *)
C20_Witness ==
    \E a \in AccountIds :
        /\ accounts[a] = [Account(NullStr, NullStr, NullTime) EXCEPT !.name = "main", !.active = FALSE]
        /\ \E p \in PostIds : Exists(posts[p]) /\ posts[p].accountId = a
        /\ \E i \in ScheduleIds : schedules[i].state = "ROW" /\ schedules[i].accountId = a
        /\ \E b \in AccountIds : accounts[b].refreshToken = "refresh"

(* C21: every SCHEDULED post has a scheduledAt and an accountId.           *)
C21_ScheduledHasTimeAndAccount ==
    \A p \in PostIds :
        (Exists(posts[p]) /\ posts[p].status = "SCHEDULED")
            => posts[p].scheduledAt # NullTime /\ posts[p].accountId # NullId

(* What does hold for C21: a post that auto-approved generation creates    *)
(* as SCHEDULED has both.                                                  *)
C21_GeneratedScheduledHasBoth ==
    (genLog.result = "created" /\ posts[genLog.post].status = "SCHEDULED")
        => posts[genLog.post].scheduledAt # NullTime /\ posts[genLog.post].accountId # NullId

(* C22: every SCHEDULED post eventually leaves SCHEDULED for PUBLISHED or  *)
(* FAILED.                                                                 *)
C22_ScheduledEventuallyLeaves ==
    \A p \in PostIds :
        (Exists(posts[p]) /\ posts[p].status = "SCHEDULED")
            ~> (posts[p].status \in {"PUBLISHED", "FAILED"})

(* What does hold for C22: a SCHEDULED post that has a scheduledAt         *)
(* eventually leaves SCHEDULED for PUBLISHED or FAILED.                    *)
C22_ScheduledWithTimeLeaves ==
    \A p \in PostIds :
        (Exists(posts[p]) /\ posts[p].status = "SCHEDULED" /\ posts[p].scheduledAt # NullTime)
            ~> (posts[p].status \in {"PUBLISHED", "FAILED"})

(* ------------------------------------------------------------------------ *)
(* The message a refused request carries: the one of the response body, or *)
(* the step's own text when the body has none.                             *)
StepMessage(response, text) == IF response.message = NullStr THEN text ELSE response.message

(* C23: the publish call is one operation of two steps. The commit request *)
(* is sent only after the container request succeeded; the post becomes    *)
(* PUBLISHED, with the remote id of the commit, only when both steps       *)
(* succeeded; a refusal of either step, a refused commit after a created   *)
(* container included, leaves the post FAILED with that step's message;    *)
(* and a FAILED post is not PUBLISHED by a later step of the sweep.        *)
C23_TwoStepPublishIsOneOperation ==
    [][ /\ \A o \in PublishOutcomes :
             SweepPublish(1, o) =>
                LET p == Head(sweep[1].queue).id
                IN /\ (\E i \in DOMAIN wire' : wire'[i] = "commit") => o.container.ok
                   /\ wire'[1] = "container"
                   /\ (posts'[p].status = "PUBLISHED") <=> (o.container.ok /\ o.commit.ok)
                   /\ (o.container.ok /\ o.commit.ok) => posts'[p].threadsId = o.commit.id
                   /\ ~o.container.ok =>
                         /\ posts'[p].status = "FAILED"
                         /\ posts'[p].error = StepMessage(o.container, "Failed to create media container")
                   /\ (o.container.ok /\ ~o.commit.ok) =>
                         /\ posts'[p].status = "FAILED"
                         /\ posts'[p].error = StepMessage(o.commit, "Failed to publish post")
        /\ \A p \in PostIds :
             posts[p].status = "FAILED" => posts'[p].status # "PUBLISHED" ]_vars

(* A sweep published a post whose commit was refused after its container   *)
(* was created: both requests went out and the post is FAILED.             *)
C23_CommitRefusedAfterContainer ==
    /\ wire = <<"container", "commit">>
    /\ lastCall # 0
    /\ posts[lastCall].status = "FAILED"
    /\ posts[lastCall].error = "Failed to publish post"

(* ------------------------------------------------------------------------ *)
(* A step of the loop of generateScheduledPosts: one schedule of the tick  *)
(* is dealt with.                                                          *)
LoopStep == gen.pc = "run" /\ gen' # gen

(* C24: in an iteration of the generation loop that no error interrupts,   *)
(* a MANUAL topic is used only when the fetched trend pool is empty, the   *)
(* topic is then one of the active MANUAL topics, and with no active       *)
(* MANUAL topic the schedule is skipped: no post is created, the schedule  *)
(* leaves the queue of the tick and the loop goes on with the next one.    *)
C24_ManualPoolIsTheFallback ==
    [][LoopStep =>
          LET schedule == Head(gen.queue)
              trending == FetchAllTrends(feed)
              manual == { topics[i] : i \in { k \in 1..Len(topics) :
                                topics[k].active /\ topics[k].type = "MANUAL" } }
          IN /\ (genLog'.result = "created" /\ genLog'.pool = "manual")
                   => /\ Len(trending) = 0
                      /\ \E t \in manual : genLog'.source = t.source /\ genLog'.title = t.title
             /\ (genLog'.result = "created" /\ Len(trending) = 0) => genLog'.pool = "manual"
             /\ (genLog'.result = "created" /\ Len(trending) > 0) => genLog'.pool = "trending"
             /\ genLog'.result = "noTopic" <=>
                   (Len(trending) = 0 /\ manual = {} /\ genLog'.result # "error")
             /\ genLog'.result = "noTopic"
                   => /\ posts' = posts
                      /\ nextPost' = nextPost
                      /\ gen'.made = gen.made
                      /\ gen'.queue = Tail(gen.queue)
                      /\ \A i \in DOMAIN gen'.queue : gen'.queue[i].id # schedule.id]_vars

(* A schedule was skipped for want of any topic, no post was made for it   *)
(* and the tick goes on with another schedule.                             *)
C24_SkippedWithoutTopic ==
    /\ genLog.result = "noTopic"
    /\ gen.pc = "run"
    /\ gen.made[genLog.schedule] = 0
    /\ nextPost = 0

(* A post was generated from a MANUAL topic.                               *)
C24_ManualTopicUsed == genLog.result = "created" /\ genLog.pool = "manual"

(* ------------------------------------------------------------------------ *)
(* C25: a generation tick at UTC hour H creates a post only for a schedule *)
(* that is active and whose postingTimes has the label "HH:00" of that     *)
(* hour, and one post at most for a schedule in a tick; an inactive        *)
(* schedule, one whose slots miss the hour and a slot such as "09:30"      *)
(* cause no post.                                                          *)
C25_PostsOnlyForSchedulesOfTheHour ==
    [][LET hour == (now \div 60) % 24
           label == <<hour \div 10, hour % 10, 0, 0>>
       IN /\ (\E p \in PostIds : posts'[p] # posts[p])
                => /\ genLog'.result = "created"
                   /\ \A p \in PostIds : posts'[p] # posts[p] => p = genLog'.post
                   /\ schedules[genLog'.schedule].state = "ROW"
                   /\ schedules[genLog'.schedule].active
                   /\ label \in schedules[genLog'.schedule].postingTimes
          /\ \A i \in ScheduleIds :
                /\ gen'.made[i] <= 1
                /\ gen'.made[i] = 1
                      => schedules[i].active /\ label \in schedules[i].postingTimes]_vars

(* The tick of 09:00 made a post for the schedule of the hour and is over, *)
(* and a schedule that is inactive, or posts at 09:30, got none.           *)
C25_OtherScheduleGotNone ==
    /\ genLog.result = "created"
    /\ gen.pc = "idle"
    /\ gen.made[genLog.schedule] = 1
    /\ \E i \in ScheduleIds :
          /\ schedules[i].state = "ROW"
          /\ ~schedules[i].active \/ schedules[i].postingTimes = {Slot(9, 30)}
          /\ gen.made[i] = 0

(* ------------------------------------------------------------------------ *)
(* C26: the sweep's terminal write is a compare-and-set: an iteration of   *)
(* the sweep changes a post row only if the row is still SCHEDULED at the  *)
(* write, so a status another operation gave the post after the sweep's    *)
(* read is never overwritten.                                              *)
C26_SweepWritesOnlyScheduledRows ==
    [][(\/ SweepNoCredential(1)
        \/ \E outcome \in PublishOutcomes : SweepPublish(1, outcome))
          => LET p == Head(sweep[1].queue).id
             IN posts[p].status # "SCHEDULED" => posts'[p] = posts[p]]_vars

C28_SelectedIsAmongTopFive ==
    pick.called =>
        LET pool == pick.pool
            survivors == { i \in 1..Len(pool) : ~MatchesAny(pool[i].title, pick.exclude) }
            points(i) == scoreTopicForPersona(pool[i], Personas[pick.persona])
        IN survivors # {} =>
              \E i \in survivors :
                  /\ pool[i] = pick.result
                  /\ Cardinality({ j \in survivors : points(j) > points(i) }) < 5

(* Six or more candidates survive and the fifth best of them was selected, *)
(* a candidate that comes later in the pool than one it outscores.         *)
C28_FifthOfSixSelected ==
    /\ pick.called
    /\ LET pool == pick.pool
           survivors == { i \in 1..Len(pool) : ~MatchesAny(pool[i].title, pick.exclude) }
           points(i) == scoreTopicForPersona(pool[i], Personas[pick.persona])
       IN /\ Cardinality(survivors) >= 6
          /\ \E i \in survivors :
                /\ pool[i] = pick.result
                /\ Cardinality({ j \in survivors : points(j) > points(i) }) = 4
                /\ \E j \in survivors : j < i /\ points(j) < points(i)

(* ------------------------------------------------------------------------ *)
(* C29: the platform gets a successful publish for a post at most once: a  *)
(* step of a sweep that publishes post p with success finds p without a    *)
(* remote id, that is, not published by an earlier call.                   *)
C29_PublishedAtMostOnce ==
    [][\A p \in PostIds :
          (SweepCalls(p) /\ posts'[p].status = "PUBLISHED") => posts[p].threadsId = NullStr]_vars

(* ------------------------------------------------------------------------ *)
(* C30: when the content generation fails for a schedule in a generation   *)
(* tick, the step leaves the Post table as it was, the schedule is not     *)
(* taken up again in the tick, and the tick has made no post for it.       *)
C30_FailedGenerationCreatesNothing ==
    /\ [][(LoopStep /\ genLog'.result = "error" /\ genLog'.cause = "aiError")
             => LET schedule == Head(gen.queue)
                IN /\ posts' = posts
                   /\ nextPost' = nextPost
                   /\ genLog'.schedule = schedule.id
                   /\ gen'.made = gen.made
                   /\ \A i \in DOMAIN gen'.queue : gen'.queue[i].id # schedule.id]_vars
    /\ [](\A i \in ScheduleIds : gen.failed[i] > 0 => gen.failed[i] = 1 /\ gen.made[i] = 0)

(* The generation failed for a schedule of the hour after a post was made  *)
(* for another one: the tick is over, the Post table has that one row.     *)
C30_FailedAfterAnotherPost ==
    /\ genLog.result = "error"
    /\ genLog.cause = "aiError"
    /\ gen.pc = "idle"
    /\ gen.failed[genLog.schedule] = 1
    /\ gen.made[genLog.schedule] = 0
    /\ nextPost = 1
    /\ \E i \in ScheduleIds : i # genLog.schedule /\ gen.made[i] = 1

====
